---- MODULE Spec2Model ----
(***************************************************************************)
(* Model of the agent loop MCPClient.process_query                         *)
(* (src/src/bots/main_bot/mcp_client.py) together with the LLM gateway     *)
(* call _call_llm and the custom-dialect reply parser.                     *)
(* MCPClient.cleanup is modelled in CleanupSpec; YandexSearchAPI.search and *)
(* _parse_search_results (src/src/bots/main_bot/yandex_search.py) are      *)
(* modelled in SearchSpec and ParseSpec; optimize_results and              *)
(* format_results in ResultsSpec; the start-up of the gateway              *)
(* (src/src/api/api.py, src/src/gateway.py) with connect_to_server in      *)
(* ConnectSpec.  LiveSpec is the agent loop under a fair scheduler;        *)
(* FormatSpec applies _format_tool_result to content lists; ToolSpec is    *)
(* the search_internet tool (src/src/bots/main_bot/main_bot.py);           *)
(* MessageSpec is the MessageProcessor of the gateway                      *)
(* (src/src/core/message_processor.py); SessionsSpec follows one client    *)
(* over several connect_to_server calls and PairSpec two interleaved       *)
(* process_query executions.                                               *)
(*                                                                         *)
(* Python values are modelled as tagged pairs <<type, tokens>>: a str is   *)
(* the sequence of its tokens, so that emptiness, truthiness, f-string     *)
(* formatting and concatenation are computed and not assumed.              *)
(***************************************************************************)
EXTENDS Integers, Sequences, FiniteSets, TLC

VARIABLES
    dialect,          \* llm_config.is_openai_compatible: "openai" or "custom"
    backend,          \* "http" (self.mcp_client set), "stdio" (self.session set), "none"
    available_tools,  \* self.available_tools: "empty", "objects" or "bad"
    pc,               \* position of process_query
    i,                \* loop variable of `for i in range(max_iterations)`
    messages,         \* the conversation sent to the model
    final_text,       \* the running transcript of fragments
    llm_response,     \* the last response a model call of the main loop returned
    tool_calls,       \* tool_calls of the current model turn
    k,                \* 1-based position in tool_calls of the call being handled
    tool_results,     \* tool_results of the current turn
    result,           \* what process_query returned
    llm_calls,        \* number of _call_llm invocations of this query
    tool_invocations, \* the call_tool invocations of this query, in order
    llm_in_flight,    \* number of model calls awaited right now
    tool_in_flight,   \* positions of the tool calls awaited right now
    varied,           \* number of freely answered tool calls so far
    free,             \* whether the tool outcomes of the current turn are freely chosen
    llm_request       \* the payload of the last model call

\* State of MCPClient.cleanup.
VARIABLES
    http_client,      \* self.http_client, the client of the LLM endpoint: "open" or "closed"
    mcp_client,       \* self.mcp_client: "absent" (attribute never set), "open" or "closed"
    exit_stack,       \* self.exit_stack: the contexts it holds, or None
    cleanup_pc,       \* position of cleanup
    cleanup_calls,    \* number of cleanup calls that returned
    cleanup_raised,   \* whether a cleanup call raised
    releases          \* the close attempts made so far, in order

cleanupVars == <<http_client, mcp_client, exit_stack, cleanup_pc, cleanup_calls,
                 cleanup_raised, releases>>

\* State of YandexSearchAPI.search.
VARIABLES
    pages_to_fetch,   \* the page list of the call
    search_pc,        \* position of search
    page_idx,         \* 1-based position of the submit loop in pages_to_fetch
    operations,       \* the operation ids collected by the submit phase
    op_idx,           \* 1-based position of the poll loop in operations
    attempts,         \* the attempt counter of the operation being polled
    xml_results,      \* the payloads decoded so far
    search_result,    \* what search returned
    aborted,          \* whether the handler of lines 461-463 ended the search
    submissions,      \* the submission calls made so far, in order
    polls,            \* one entry per poll sequence begun, in order
    default_pages,    \* the list object that is the default of pages_to_fetch
    uses_default,     \* whether the call passed no page list
    search_calls      \* number of the search call, counted from 1

\* What stays as it is during one call of search.
callVars == <<default_pages, uses_default, search_calls>>
searchVars == <<pages_to_fetch, search_pc, page_idx, operations, op_idx, attempts,
                xml_results, search_result, aborted, submissions, polls, callVars>>

\* State of one application of _parse_search_results.
VARIABLES
    xml_content,      \* the payload given to the parser
    parse_pc,         \* "idle", "returned" or "raised"
    parsed_results    \* the list the parser returned

parseVars == <<xml_content, parse_pc, parsed_results>>

\* State of the search_internet tool after search() returned.
VARIABLES
    results,          \* the records search() returned
    min_length,       \* the bounds given to optimize_results
    max_length,
    results_pc,       \* "idle", "optimized" or "formatted"
    optimized_results, \* what optimize_results returned
    formatted         \* the paragraphs of the text format_results returned

resultsVars == <<results, min_length, max_length, results_pc, optimized_results,
                 formatted>>

\* State of the start-up of the gateway and of connect_to_server.
VARIABLES
    server_config,    \* the server specification of the configuration
    on_path,          \* the commands shutil.which finds
    sys_executable,   \* sys.executable ("" when the interpreter has none)
    registry,         \* ~/.config/mcp/config.json, as the lookup finds it
    connect_pc,       \* position of the start-up
    connect_error,    \* the exception connect_to_server raised
    net_log,          \* network requests and process spawns so far, in order
    serving           \* whether the gateway accepts messages

\* State of one application of _format_tool_result.
VARIABLES
    content_list,     \* result.content: the items the tool returned
    tool_result,      \* the text made of them
    format_pc         \* "idle" | "done"

formatVars == <<content_list, tool_result, format_pc>>

\* State of one call of the search_internet tool.
VARIABLES
    tool_query,       \* the arguments query and num of the call
    tool_num,
    tool_pc,          \* "idle" | "searching" | "returned" | "raised"
    search_requests,  \* the calls of client.search made, with their arguments
    tool_records,     \* the records client.search returned
    tool_return       \* the paragraphs of the text the tool returned

toolVars == <<tool_query, tool_num, tool_pc, search_requests, tool_records, tool_return>>
\* The state of the components modelled on their own.
\* State of the MessageProcessor of the gateway.
VARIABLES
    stats,            \* self.stats: total_messages, messages_by_client, errors
    received,         \* number of process_message calls made
    in_process,       \* the messages awaiting _generate_response
    responses         \* what process_message returned, in order of return

messageVars == <<stats, received, in_process, responses>>

\* State of one client over several connect_to_server calls.
VARIABLES
    connect_calls,        \* number of connect_to_server calls made
    session_made_by,      \* the call that assigned self.session (0: None)
    mcp_client_made_by,   \* the call that assigned self.mcp_client (0: no attribute)
    last_connected,       \* the last call that returned normally (0: none)
    dispatches            \* the tool calls dispatched, with their target

sessionVars == <<connect_calls, session_made_by, mcp_client_made_by,
                 last_connected, dispatches>>

\* State of two process_query executions on one client.
VARIABLES
    frames,           \* per coroutine frame: the locals messages and final_text
    query_pc,         \* per query: "idle" | "await_llm" | "await_tool" | "done"
    turns,            \* per query: the tool turns completed
    answers           \* per query: what process_query returned

pairVars == <<frames, query_pc, turns, answers>>

restVars == <<formatVars, toolVars, messageVars, sessionVars, pairVars>>

connectVars == <<server_config, on_path, sys_executable, registry, connect_pc,
                 connect_error, net_log, serving>>

queryVars == <<dialect, backend, available_tools, pc, i, messages, final_text,
               llm_response, tool_calls, k, tool_results, result, llm_calls,
               tool_invocations, llm_in_flight, tool_in_flight, varied, free,
               llm_request>>

vars == <<queryVars, cleanupVars, searchVars, parseVars, resultsVars, connectVars,
          restVars>>

\* ---------------------------------------------------------------- bounds
\* Longest tool_calls list a model reply carries.
MaxCalls == 2
\* Number of successive cleanup calls.
MaxCleanups == 2
\* Longest page list given to search.
MaxPages == 2
\* Largest number of documents in a parsed payload.
MaxDocs == 2
\* Number of tool calls per query that the model and the tool backend answer
\* freely (any entry shape, any outcome); every other tool-requesting turn is
\* the plain one (one well-formed call that succeeds). Replies that end the
\* query are always chosen freely.
MaxVaried == 2
\* Longest list of records filtered and rendered.
MaxRecords == 3
\* Number of successive search calls on one YandexSearchAPI.
MaxSearches == 2
\* Longest content list of a tool result.
MaxItems == 4
\* Number of messages given to one MessageProcessor.
MaxMessages == 3
\* Number of connect_to_server calls on one client, and of tool calls after them.
MaxConnects == 3
MaxDispatches == 2
\* Tool turns the model asks for in each of two concurrent queries.
MaxToolTurns == 2

\* ------------------------------------------------------- program constants
max_iterations == 10
\* The poll loop `while attempts < 10` of yandex_search.py.
max_attempts == 10

\* ------------------------------------------------------------ Python values
Str(toks) == <<"str", toks>>
None == <<"none", <<>>>>
List(toks) == <<"list", toks>>
IsStr(x) == x[1] = "str"
\* Python truthiness of None, a str or a list.
Truthy(x) == Len(x[2]) > 0
\* str(x) / f"{x}" of a value.
Fmt(x) == IF IsStr(x) THEN x[2] ELSE <<"repr(" \o x[1] \o ")">>
\* f"<prefix>{x}"
FStr(prefix, x) == Str(<<prefix>> \o Fmt(x))

\* --------------------------------------------------------------- literals
\* The Russian literals of the source, glossed in ASCII.
EmptyResponse == Str(<<"Empty response.">>)                     \* "Пустой ответ."
CriticalError == FStr("Critical error while processing the query: ", Str(<<"exc">>))
LlmTimeoutText(it) == Str(<<"\n", "LLM timeout at iteration ", ToString(it)>>)
IterationErrorText(it) == Str(<<"\n", "Error at iteration ", ToString(it), ": ", "exc">>)
FinalTimeoutText == Str(<<"\n", "Timeout while getting the final answer">>)
FinalAnswerText(c) == FStr("\nFinal answer: ", c)
ToolTimeoutText(name) == Str(<<"Timeout calling tool ", name>>)
ToolErrorText(name) == Str(<<"Error calling tool ", name, ": ", "exc">>)
LlmStatusText == Str(<<"LLM call error: ", "status - body">>)
LlmExceptionText == Str(<<"LLM request error: ", "exc">>)
LlmEmptyChoicesText == Str(<<"Empty answer from the LLM">>)
LlmUnparsedText == Str(<<"Could not process the LLM answer">>)

\* ------------------------------------------------------------ conversation
Msg(role, c, tcs, id) ==
    [role |-> role, content |-> c, tool_calls |-> tcs, tool_call_id |-> id]
SystemMessage == Msg("system", Str(<<"instructions", "tools">>), <<>>, "")
UserMessage == Msg("user", Str(<<"query">>), <<>>, "")
AssistantMessage(c, tcs) == Msg("assistant", c, tcs, "")
\* Mutant: the tool-role message is built without its tool_call_id.
ToolMessage_NoId(id, c) == Msg("tool", c, <<>>, "")
ToolMessage(id, c) == Msg("tool", c, <<>>, id)

\* One element of a reply's tool_calls. wf = FALSE is an element that is not
\* a JSON object (or whose "function" is not one); arguments is "json" when
\* json.loads accepts the text and "bad" when it does not.
ToolCall(wf, id, name, arguments) ==
    [wf |-> wf, id |-> id, name |-> name, arguments |-> arguments]
ToolName == "search_internet"

RECURSIVE SumLen(_)
SumLen(ms) ==
    IF ms = <<>> THEN 0 ELSE Len(Head(ms).tool_calls) + SumLen(Tail(ms))
\* Number of tool calls requested so far in the conversation.
Requested(ms) == SumLen(ms)

\* ------------------------------------------------- tool results (call_tool)
TextItem(t) == [has_text |-> TRUE, text |-> t]
OtherItem == [has_text |-> FALSE, text |-> ""]
RECURSIVE JoinLines(_)
JoinLines(items) ==
    IF items = <<>> THEN <<>>
    ELSE IF Len(items) = 1 THEN <<items[1].text>>
    ELSE <<items[1].text, "\n">> \o JoinLines(Tail(items))
\* Mutant: every item is joined, with or without text.
_format_tool_result_KeepsAll(items) == Str(JoinLines(items))
\* "\n".join([item.text for item in content_list if hasattr(item, 'text')])
_format_tool_result(items) ==
    Str(JoinLines(SelectSeq(items, LAMBDA it : it.has_text)))
PlainContent == <<TextItem("r1")>>
\* The content lists _format_tool_result is applied to on its own: up to
\* MaxItems items, each an image or resource (no text) or a text item whose
\* text may be empty.
ContentItems == {OtherItem, TextItem(""), TextItem("a"), TextItem("b")}
ContentLists == UNION {[1..n -> ContentItems] : n \in 0..MaxItems}
\* Content list of a freely answered call: text and non-text items.
ToolContents == {<<OtherItem, TextItem("r1"), TextItem("r2")>>}

\* -------------------------------------------------- replies of the endpoint
\* What the HTTP endpoint does for one request:
\*   "exception"       the POST or response.json() raises
\*   "status"          a non-200 status
\*   "empty_choices"   openai: 200, "choices" empty or missing
\*   "bad_message"     openai: 200, choices[0]["message"] is not an object
\*   "message"         openai: 200, choices[0]["message"] = {content, tool_calls}
\*   "no_response_key" custom: 200, no "response" key
\*   "response"        custom: 200, "response" = content; calls are the matches
\*                     of the tool-call pattern in it, in text order
Raw(kind, c, calls) == [kind |-> kind, content |-> c, calls |-> calls]
Text(it) == Str(<<"content", ToString(it)>>)
\* Ids are assigned by the model (openai dialect): opaque and never repeated.
FreshId(ms, j) == "id" \o ToString(Requested(ms) + j)
GoodCall(ms, j) == ToolCall(TRUE, FreshId(ms, j), ToolName, "json")
BadArgsCall(ms, j) == ToolCall(TRUE, FreshId(ms, j), ToolName, "bad")
MalformedCall == ToolCall(FALSE, "", "", "json")
Match == ToolCall(TRUE, "", ToolName, "json")
EntryKinds == {"good", "bad", "malformed"}
OpenAiCalls(ms, n) ==
    { [j \in 1..n |-> CASE f[j] = "good" -> GoodCall(ms, j)
                        [] f[j] = "bad" -> BadArgsCall(ms, j)
                        [] OTHER -> MalformedCall] : f \in [1..n -> EntryKinds] }
\* Replies that carry no tool call (they end the query).
TerminalRaws(d, it) ==
    {Raw("exception", None, <<>>), Raw("status", None, <<>>)}
    \cup (IF d = "openai"
          THEN {Raw("empty_choices", None, <<>>), Raw("bad_message", None, <<>>)}
               \cup {Raw("message", c, <<>>) :
                       c \in {None, Str(<<>>), Text(it), List(<<"part">>)}}
          ELSE {Raw("no_response_key", None, <<>>)}
               \cup {Raw("response", c, <<>>) : c \in {None, Str(<<>>), Text(it)}})
\* The plain tool-requesting reply: one well-formed call.
PlainRaw(d, ms, it) ==
    IF d = "openai" THEN Raw("message", None, <<GoodCall(ms, 1)>>)
    ELSE Raw("response", Text(it), <<Match>>)
\* The freely chosen tool-requesting replies with n calls.
FreeRaws(d, ms, it, n) ==
    IF d = "openai" THEN {Raw("message", Text(it), cs) : cs \in OpenAiCalls(ms, n)}
    ELSE {Raw("response", Text(it), [j \in 1..n |-> Match])}

\* ---------------------------------------------------------- LLM gateway
Resp(isdict, c, tcs) == [isdict |-> isdict, content |-> c, tool_calls |-> tcs]
ContentOnly(c) == Resp(TRUE, c, <<>>)
\* llm_response before any model call returned (the name is unbound).
NoResponse == Resp(FALSE, None, <<>>)
\* The id the custom-dialect parser gives the match with index j (0-based).
CustomId(j) == "call_" \o ToString(j)
_parse_custom_llm_response(raw) ==
    IF raw.kind = "response"
    THEN Resp(TRUE, raw.content,
              [j \in 1..Len(raw.calls) |->
                 ToolCall(TRUE, CustomId(j - 1), raw.calls[j].name, "json")])
    ELSE ContentOnly(LlmUnparsedText)
\* Mutant: a non-200 status and a failed request escape _call_llm, so that
\* the caller has no response to read.
_call_llm_Unguarded(d, raw) ==
    CASE raw.kind \in {"exception", "status"} -> Resp(FALSE, None, <<>>)
      [] raw.kind = "empty_choices" -> ContentOnly(LlmEmptyChoicesText)
      [] raw.kind = "bad_message" -> Resp(FALSE, None, <<>>)
      [] raw.kind = "message" -> Resp(TRUE, raw.content, raw.calls)
      [] raw.kind = "response" /\ ~IsStr(raw.content) -> Resp(FALSE, None, <<>>)
      [] OTHER -> _parse_custom_llm_response(raw)
\* _call_llm returns a response for every behaviour of the endpoint; the
\* asyncio.wait_for timeout around it is a separate outcome (LlmTimeout).
_call_llm(d, raw) ==
    CASE raw.kind = "exception" -> ContentOnly(LlmExceptionText)
      [] raw.kind = "status" -> ContentOnly(LlmStatusText)
      [] raw.kind = "empty_choices" -> ContentOnly(LlmEmptyChoicesText)
      [] raw.kind = "bad_message" -> Resp(FALSE, None, <<>>)
      [] raw.kind = "message" -> Resp(TRUE, raw.content, raw.calls)
      [] raw.kind = "response" /\ ~IsStr(raw.content) ->
             ContentOnly(LlmExceptionText)     \* re.findall raises, line 769 catches
      [] OTHER -> _parse_custom_llm_response(raw)

\* Lines 774-810: one section per message of a known role, in order, and
\* the trailing header of the answer; "\n\n".join puts the sections together.
_format_messages_for_custom_llm(ms) ==
    LET Header(m) == CASE m.role = "system" -> "### Instructions:"
                       [] m.role = "user" -> "### User:"
                       [] m.role = "assistant" -> "### Assistant:"
                       [] OTHER -> "### Tool result (" \o m.tool_call_id \o "):"
        known == SelectSeq(ms, LAMBDA m : m.role \in {"system", "user", "assistant", "tool"})
    IN  [j \in 1..Len(known) |-> <<Header(known[j]), known[j].content>>]
        \o <<<<"### Assistant:">>>>
\* No model call made yet.
NoRequest == [sent |-> FALSE]
\* Mutant: the conversation is cut to the system message and the last message.
Payload_Window(d, ms) ==
    LET cut == IF Len(ms) > 2 THEN <<ms[1], ms[Len(ms)]>> ELSE ms
    IN  IF d = "openai" THEN [messages |-> cut]
        ELSE [prompt |-> _format_messages_for_custom_llm(cut)]
\* Lines 721-738: the part of the payload that carries the conversation.
Payload(d, ms) ==
    IF d = "openai" THEN [messages |-> ms]
    ELSE [prompt |-> _format_messages_for_custom_llm(ms)]

\* ------------------------------------------------ search payloads (XML)
\* src/src/bots/main_bot/yandex_search.py.  A text is the sequence of its
\* tokens: words, the blank " ", and markup-like tokens such as "<b>".  An
\* element with children is <<"elem", children>>, a missing one is None; a
\* child is [tag, text].  A payload is well-formed with its <doc> elements
\* in document order, or malformed.
Element(children) == <<"elem", children>>
Child(tag, text) == [tag |-> tag, text |-> text]
Xml(docs) == [wellformed |-> TRUE, docs |-> docs]
MalformedXml == [wellformed |-> FALSE, docs |-> <<>>]

\* str.strip(): leading and trailing blanks removed.
RECURSIVE Strip(_)
Strip(text) ==
    IF text = <<>> THEN <<>>
    ELSE IF Head(text) = " " THEN Strip(Tail(text))
    ELSE IF text[Len(text)] = " " THEN Strip(SubSeq(text, 1, Len(text) - 1))
    ELSE text

\* Line 56: the text of an element and its descendants, stripped; "" for None.
_get_element_full_text(element) ==
    IF element = None THEN <<>> ELSE Strip(element[2])

\* What the pattern <[^>]+> of line 87 matches.
IsTag(tok) == tok \in {"<b>", "</b>"}
\* Lines 85-87: markup removed, then stripped; "" for an empty text.
_clean_text(text) ==
    IF text = <<>> THEN <<>>
    ELSE Strip(SelectSeq(text, LAMBDA tok : ~IsTag(tok)))

\* Element.find(tag) on a properties element that is not None: the first
\* child of that tag as <<"elem", text>>, or None.
Find(properties_elem, tag) ==
    LET hits == SelectSeq(properties_elem[2], LAMBDA c : c.tag = tag)
    IN  IF hits = <<>> THEN None ELSE Element(hits[1].text)

\* Element.findtext(tag, '') on a properties element that is not None.
FindText(properties_elem, tag) ==
    LET hits == SelectSeq(properties_elem[2], LAMBDA c : c.tag = tag)
    IN  IF hits = <<>> THEN <<>> ELSE hits[1].text

\* " ".join(passages)
RECURSIVE JoinBlank(_)
JoinBlank(texts) ==
    IF texts = <<>> THEN <<>>
    ELSE IF Len(texts) = 1 THEN texts[1]
    ELSE texts[1] \o <<" ">> \o JoinBlank(Tail(texts))
\* Lines 165-170: the non-empty passage texts of the document, joined.
Passages(doc_elem) ==
    LET full == [j \in 1..Len(doc_elem.passages) |->
                    _get_element_full_text(Element(doc_elem.passages[j]))]
    IN  JoinBlank(SelectSeq(full, LAMBDA t : t # <<>>))

\* Lines 158-161: the extended text of the document; `if properties_elem:`
\* is the truth value of an Element, which is false for one without children.
ExtendedText(doc_elem) ==
    IF Truthy(doc_elem.properties)
    THEN LET ext_elem == Find(doc_elem.properties, "extended-text")
         IN  IF ext_elem # None THEN _get_element_full_text(ext_elem) ELSE <<>>
    ELSE <<>>

\* Mutant: the headline is preferred to the passages.
Content_HeadlineFirst(doc_elem) ==
    LET headline == _clean_text(_get_element_full_text(Element(doc_elem.headline)))
        c1 == ExtendedText(doc_elem)
        c2 == IF c1 = <<>> /\ headline # <<>> THEN headline ELSE c1
        c3 == IF c2 = <<>> THEN Passages(doc_elem) ELSE c2
    IN  _clean_text(c3)
\* Lines 154-174 and 184: the content of the record.
Content(doc_elem) ==
    LET headline == _clean_text(_get_element_full_text(Element(doc_elem.headline)))
        c1 == ExtendedText(doc_elem)
        c2 == IF c1 = <<>> THEN Passages(doc_elem) ELSE c1
        c3 == IF c2 = <<>> /\ headline # <<>> THEN headline ELSE c2
    IN  _clean_text(c3)

\* Lines 144-185: the record of one document.
Record(doc_elem) ==
    [url      |-> doc_elem.url,
     domain   |-> doc_elem.domain,
     title    |-> _clean_text(_get_element_full_text(Element(doc_elem.title))),
     headline |-> _clean_text(_get_element_full_text(Element(doc_elem.headline))),
     modtime  |-> doc_elem.modtime,
     lang     |-> IF Truthy(doc_elem.properties)
                  THEN FindText(doc_elem.properties, "lang")
                  ELSE <<>>,
     content  |-> Content(doc_elem)]

\* Mutant: a document whose extraction raises ends the loop over documents.
RECURSIVE Records_StopAtError(_)
Records_StopAtError(docs) ==
    IF docs = <<>> THEN <<>>
    ELSE IF Head(docs).broken THEN <<>>
    ELSE <<Record(Head(docs))>> \o Records_StopAtError(Tail(docs))
\* Lines 140-190: one record per document, in document order; a document
\* whose extraction raises is logged and skipped.
RECURSIVE Records(_)
Records(docs) ==
    IF docs = <<>> THEN <<>>
    ELSE IF Head(docs).broken THEN Records(Tail(docs))
    ELSE <<Record(Head(docs))>> \o Records(Tail(docs))

\* Mutant: the ParseError of a malformed payload leaves the function.
ParseRaises_OnMalformed(xml_text) == ~xml_text.wellformed
\* Lines 195-200: ParseError and every other Exception are caught, so that
\* no exception leaves _parse_search_results.
ParseRaises(xml_text) == FALSE
\* Lines 131-200: the records of a well-formed payload, [] for a malformed one.
_parse_search_results(xml_text) ==
    IF xml_text.wellformed THEN Records(xml_text.docs) ELSE <<>>

\* The documents parsed in ParseSpec: with or without properties, with an
\* absent, empty, markup-only or worded extended text, with no, only empty or
\* non-empty passages, with or without a headline, extractable or not.
PropertiesCases ==
    {None,
     Element(<<Child("lang", <<"ru">>)>>),
     Element(<<Child("extended-text", <<>>)>>),
     Element(<<Child("extended-text", <<"<b>">>)>>),
     Element(<<Child("lang", <<"ru">>), Child("extended-text", <<"e", "<b>">>)>>)}
PassagesCases == {<<>>, <<<<" ">>>>, <<<<"p1">>, <<>>, <<"p2", " ">>>>}
HeadlineCases == {<<>>, <<"<b>", "h", "</b>">>}
Docs ==
    [url : {"u"}, domain : {"d"}, title : {<<"t">>}, modtime : {"m"},
     headline : HeadlineCases, properties : PropertiesCases,
     passages : PassagesCases, broken : BOOLEAN]
\* The payloads parsed in ParseSpec: malformed, or up to MaxDocs documents.
Payloads == {MalformedXml} \cup {Xml(docs) : docs \in UNION {[1..n -> Docs] : n \in 0..MaxDocs}}


\* ------------------------------- optimize_results and format_results
\* src/src/bots/main_bot/main_bot.py, lines 116-123: the records search()
\* returned are filtered and then rendered.  A content is the sequence of
\* its characters; max_length is float('inf') or a number.
Inf == <<"inf", 0>>
Num(n) == <<"num", n>>
\* Mutant: the interval is closed at min_length.
optimize_results_Closed(records, min, max) ==
    SelectSeq(records, LAMBDA item :
        /\ Len(item.content) > 0
        /\ (max = Inf \/ max[2] > Len(item.content))
        /\ Len(item.content) >= min)
\* yandex_search.py, lines 228-238: the records with a truthy content whose
\* length satisfies max_length > len > min_length.
optimize_results(records, min, max) ==
    SelectSeq(records, LAMBDA item :
        /\ Len(item.content) > 0
        /\ (max = Inf \/ max[2] > Len(item.content))
        /\ Len(item.content) > min)

\* Mutant: the blocks are numbered from 0.
format_results_ZeroBased(records, query) ==
    IF records = <<>> THEN <<[kind |-> "nothing_found", query |-> query]>>
    ELSE <<[kind |-> "header", query |-> query]>>
         \o [j \in 1..Len(records) |->
               [kind |-> "block", number |-> j - 1, item |-> records[j]]]
\* yandex_search.py, lines 260-272: the paragraphs that "\n\n".join puts
\* together: the sentinel alone, or the header and one block per record,
\* numbered i+1 for the enumerate index i.
format_results(records, query) ==
    IF records = <<>> THEN <<[kind |-> "nothing_found", query |-> query]>>
    ELSE <<[kind |-> "header", query |-> query]>>
         \o [j \in 1..Len(records) |->
               [kind |-> "block", number |-> (j - 1) + 1, item |-> records[j]]]

\* The record lists filtered in ResultsSpec: up to MaxRecords records, told
\* apart by their url, with an empty, a short, a 30 and a 31 character
\* content.
ResultRecord(n, len) ==
    [url |-> "u" \o ToString(n), domain |-> "d", title |-> <<"t">>,
     headline |-> <<>>, modtime |-> "m", lang |-> <<>>,
     content |-> [c \in 1..len |-> "c"]]
RecordLists ==
    {[j \in 1..Len(lens) |-> ResultRecord(j, lens[j])] :
        lens \in UNION {[1..n -> {0, 1, 30, 31}] : n \in 0..MaxRecords}}

\* Nothing filtered or rendered yet.
ResultsIdle(records, min, max) ==
    /\ results = records
    /\ min_length = min
    /\ max_length = max
    /\ results_pc = "idle"
    /\ optimized_results = <<>>
    /\ formatted = <<>>

\* ------------------------------------------------------- search_internet
\* src/src/bots/main_bot/main_bot.py, lines 74-126.
\* The values of num (default 5) the tool is called with.
Nums == {-1, 0, 1, 5, 10, 11}
\* The filter of the tool (line 119).
tool_min_length == 30
\* Mutant: only the upper end is clamped.
Clamp_UpperOnly(n) == IF n > 10 THEN 10 ELSE n
\* Lines 106-107: `if num > 10: num = 10` and then
\* `if num < 1: num = 1`.
Clamp(n) ==
    LET upper == IF n > 10 THEN 10 ELSE n
    IN  IF upper < 1 THEN 1 ELSE upper
\* Lines 125-126: the error text made of the message of the exception.
SearchErrorText(e) == <<[kind |-> "error", message |-> e]>>
\* Line 104: the message of the ValueError raised for an empty query.
EmptyQueryError == "query must not be empty"

\* ---------------------------------------------------- server specifications
ServerConfig(type, host, port, executable, name) ==
    [connect_type |-> type, host |-> host, port |-> port,
     executable |-> executable, name |-> name]
\* The specifications connect_to_server is given: each variant with its
\* required fields present or missing ("" and 0 are what `not` rejects).
ServerConfigs ==
    {ServerConfig("http", h, p, "", "") : h \in {"", "h"}, p \in {0, 8000}}
    \cup {ServerConfig("executable", "", 0, e, "") : e \in {"", "node", "ghost"}}
    \cup {ServerConfig("mcp_lookup", "", 0, "", n) : n \in {"", "srv"}}
\* What shutil.which finds.
PathCases ==
    {{}, {"node"}, {"python"}, {"python", "python3"}, {"python3.13", "python3.11"},
     {"/cur/python"}, {"/cur/python", "python3.12", "node"}}
\* The registry file: missing, unreadable, without the name, or with an
\* entry of that name whose command is "node".
RegistryCases == {"missing", "unreadable", "without_name", "with_name"}
\* Nothing loaded or connected yet.
ConnectAtRest(cfg, path, exe, reg) ==
    /\ server_config = cfg
    /\ on_path = path
    /\ sys_executable = exe
    /\ registry = reg
    /\ connect_pc = "unloaded"
    /\ connect_error = "none"
    /\ net_log = <<>>
    /\ serving = FALSE
\* _format_tool_result not applied yet.
FormatIdle(items) ==
    /\ content_list = items
    /\ tool_result = None
    /\ format_pc = "idle"
\* search_internet not called yet.
ToolIdle(q, n) ==
    /\ tool_query = q
    /\ tool_num = n
    /\ tool_pc = "idle"
    /\ search_requests = <<>>
    /\ tool_records = <<>>
    /\ tool_return = <<>>
\* src/src/core/models.py, lines 6-19: the clients, and the message types
\* ("file" stands for file, image, audio and video, which _generate_response
\* treats alike).
ClientType == {"telegram", "web", "cli"}
MessageType == {"text", "command", "file"}
\* src/src/core/message_processor.py, lines 39-46: MessageProcessor.__init__.
MessageProcessorInit ==
    /\ stats = [total_messages |-> 0,
                messages_by_client |-> [c \in ClientType |-> 0],
                errors |-> 0]
    /\ received = 0
    /\ in_process = {}
    /\ responses = <<>>
\* mcp_client.py, lines 224-232: MCPClient.__init__ sets self.session = None
\* and defines no mcp_client attribute.
SessionsIdle ==
    /\ connect_calls = 0
    /\ session_made_by = 0
    /\ mcp_client_made_by = 0
    /\ last_connected = 0
    /\ dispatches = <<>>
\* The two process_query executions of the pair model.
Queries == {1, 2}
\* A frame that no execution has initialised.
NoFrame == [messages |-> <<>>, final_text |-> <<>>]
\* No query started yet.
PairIdle ==
    /\ frames = [f \in Queries |-> NoFrame]
    /\ query_pc = [q \in Queries |-> "idle"]
    /\ turns = [q \in Queries |-> 0]
    /\ answers = [q \in Queries |-> None]
RestIdle ==
    /\ FormatIdle(<<>>)
    /\ ToolIdle("q", 5)
    /\ MessageProcessorInit
    /\ SessionsIdle
    /\ PairIdle
OtherAtRest ==
    /\ ResultsIdle(<<>>, 0, Inf)
    /\ ConnectAtRest(ServerConfig("http", "h", 8000, "", ""), {}, "", "missing")

\* ------------------------------------------------------------------ Init
\* The client after construction and connect_to_server: one dialect, one
\* backend kind, and a tool catalog that is empty, a list of tool objects, or
\* "bad" (an entry without .name/.description or with description None: the
\* JSON dicts of an HTTP backend, a tool without description).
Connections ==
    {<<"stdio", "objects">>, <<"stdio", "bad">>, <<"http", "empty">>,
     <<"http", "bad">>, <<"none", "empty">>}
\* An AsyncExitStack holding the contexts entered so far (lines 225, 315,
\* 326): the stdio transport first, the ClientSession after it.
Stack(contexts) == <<"stack", contexts>>
\* No query, no cleanup under way.
ClientAtRest ==
    /\ pc = "idle"
    /\ i = 0
    /\ messages = <<>>
    /\ final_text = <<>>
    /\ llm_response = NoResponse
    /\ tool_calls = <<>>
    /\ k = 0
    /\ tool_results = <<>>
    /\ result = None
    /\ llm_calls = 0
    /\ tool_invocations = <<>>
    /\ llm_in_flight = 0
    /\ tool_in_flight = {}
    /\ varied = 0
    /\ free = FALSE
    /\ llm_request = NoRequest
    /\ http_client = "open"
    /\ mcp_client = (IF backend = "http" THEN "open" ELSE "absent")
    /\ exit_stack = (IF backend = "stdio" THEN Stack(<<"transport", "session">>)
                                          ELSE Stack(<<>>))
    /\ cleanup_pc = "idle"
    /\ cleanup_calls = 0
    /\ cleanup_raised = FALSE
    /\ releases = <<>>

\* search() not called; its page list defaults to [0] (line 329).
SearchIdle(pages, dflt) ==
    /\ pages_to_fetch = pages
    /\ search_pc = "idle"
    /\ page_idx = 0
    /\ operations = <<>>
    /\ op_idx = 0
    /\ attempts = 0
    /\ xml_results = <<>>
    /\ search_result = <<>>
    /\ aborted = FALSE
    /\ submissions = <<>>
    /\ polls = <<>>
    /\ default_pages = <<0>>
    /\ uses_default = dflt
    /\ search_calls = 1
\* The parser not applied yet to the payload xml_text.
ParseIdle(xml_text) ==
    /\ xml_content = xml_text
    /\ parse_pc = "idle"
    /\ parsed_results = <<>>

Init ==
    /\ dialect \in {"openai", "custom"}
    /\ \E conn \in Connections :
          backend = conn[1] /\ available_tools = conn[2]
    /\ ClientAtRest
    /\ RestIdle
    /\ SearchIdle(<<0>>, TRUE)
    /\ ParseIdle(Xml(<<>>))
    /\ OtherAtRest

\* The page lists given to search: up to MaxPages distinct pages, any order.
PageLists ==
    {pages \in UNION {[1..n -> 0..(MaxPages - 1)] : n \in 0..MaxPages} :
        \A a, b \in 1..Len(pages) : a # b => pages[a] # pages[b]}
\* The search client of the tool server, before search is called.
SearchInit ==
    /\ dialect = "openai"
    /\ backend = "none"
    /\ available_tools = "empty"
    /\ ClientAtRest
    /\ RestIdle
    /\ \/ \E pages \in PageLists : SearchIdle(pages, FALSE)
       \/ SearchIdle(<<0>>, TRUE)
    /\ ParseIdle(Xml(<<>>))
    /\ OtherAtRest
\* The parser, before it is applied to a payload.
ParseInit ==
    /\ dialect = "openai"
    /\ backend = "none"
    /\ available_tools = "empty"
    /\ ClientAtRest
    /\ RestIdle
    /\ SearchIdle(<<0>>, TRUE)
    /\ \E xml_text \in Payloads : ParseIdle(xml_text)
    /\ OtherAtRest
\* The search_internet tool, after search() returned its records.
ResultsInit ==
    /\ dialect = "openai"
    /\ backend = "none"
    /\ available_tools = "empty"
    /\ ClientAtRest
    /\ RestIdle
    /\ SearchIdle(<<0>>, TRUE)
    /\ ParseIdle(Xml(<<>>))
    /\ \E records \in RecordLists, min \in {0, 30}, max \in {Inf, Num(31)} :
          ResultsIdle(records, min, max)
    /\ ConnectAtRest(ServerConfig("http", "h", 8000, "", ""), {}, "", "missing")
\* The gateway process before start-up: MCPClient.__init__ (lines 214-236)
\* leaves no session and an empty available_tools.
ConnectInit ==
    /\ dialect = "openai"
    /\ backend = "none"
    /\ available_tools = "empty"
    /\ ClientAtRest
    /\ RestIdle
    /\ SearchIdle(<<0>>, TRUE)
    /\ ParseIdle(Xml(<<>>))
    /\ ResultsIdle(<<>>, 0, Inf)
    /\ \E cfg \in ServerConfigs, path \in PathCases, exe \in {"", "/cur/python"},
          reg \in RegistryCases :
          ConnectAtRest(cfg, path, exe, reg)

\* A tool result about to be turned into text.
FormatInit ==
    /\ dialect = "openai"
    /\ backend = "none"
    /\ available_tools = "empty"
    /\ ClientAtRest
    /\ SearchIdle(<<0>>, TRUE)
    /\ ParseIdle(Xml(<<>>))
    /\ OtherAtRest
    /\ \E items \in ContentLists : FormatIdle(items)
    /\ ToolIdle("q", 5)
    /\ MessageProcessorInit
    /\ SessionsIdle
    /\ PairIdle
\* The tool server before search_internet is called: an empty or non-empty
\* query and a num below, inside and above 1..10.
ToolInit ==
    /\ dialect = "openai"
    /\ backend = "none"
    /\ available_tools = "empty"
    /\ ClientAtRest
    /\ SearchIdle(<<0>>, TRUE)
    /\ ParseIdle(Xml(<<>>))
    /\ OtherAtRest
    /\ FormatIdle(<<>>)
    /\ \E q \in {"", "q"}, n \in Nums : ToolIdle(q, n)
    /\ MessageProcessorInit
    /\ SessionsIdle
    /\ PairIdle
\* The gateway after construction of its MessageProcessor (gateway.py,
\* line 86).
MessageInit ==
    /\ dialect = "openai"
    /\ backend = "none"
    /\ available_tools = "empty"
    /\ ClientAtRest
    /\ SearchIdle(<<0>>, TRUE)
    /\ ParseIdle(Xml(<<>>))
    /\ OtherAtRest
    /\ FormatIdle(<<>>)
    /\ ToolIdle("q", 5)
    /\ MessageProcessorInit
    /\ SessionsIdle
    /\ PairIdle

\* A client on which connect_to_server may be called several times.
SessionsInit ==
    /\ dialect = "openai"
    /\ backend = "none"
    /\ available_tools = "empty"
    /\ ClientAtRest
    /\ SearchIdle(<<0>>, TRUE)
    /\ ParseIdle(Xml(<<>>))
    /\ OtherAtRest
    /\ RestIdle

\* One client about to serve two queries.
PairInit ==
    /\ dialect = "openai"
    /\ backend = "stdio"
    /\ available_tools = "objects"
    /\ ClientAtRest
    /\ SearchIdle(<<0>>, TRUE)
    /\ ParseIdle(Xml(<<>>))
    /\ OtherAtRest
    /\ RestIdle

\* --------------------------------------------------------- process_query
\* Mutant: the wrap-up call is made after the last iteration, and the loop
\* then goes on (range(max_iterations + 1)).
LoopContinues_OneMore(it) == it < max_iterations
\* `for i in range(max_iterations)` has a next value after it.
LoopContinues(it) == it < max_iterations - 1
\* Mutant: the wrap-up call is made in every iteration that ran tools.
WrapUpDue_EveryTurn(it, trs) == Len(trs) > 0
\* Line 577: `if i == max_iterations - 1 and tool_results`.
WrapUpDue(it, trs) == it = max_iterations - 1 /\ Len(trs) > 0
\* Mutant: the first fragment is returned.
SelectAnswer_First(ft) == IF Len(ft) > 0 THEN ft[1] ELSE EmptyResponse
\* Mutant: a transcript of one fragment counts as empty (len(final_text) > 1).
SelectAnswer_OffByOne(ft) == IF Len(ft) > 1 THEN ft[Len(ft)] ELSE EmptyResponse
\* Line 604: the last fragment, or the sentinel when there is none.
SelectAnswer(ft) == IF Len(ft) > 0 THEN ft[Len(ft)] ELSE EmptyResponse

\* Lines 604-606, reached by every `break` and by the end of the loop: the
\* answer is selected from the transcript ft and returned.
Return(ft) ==
    /\ final_text' = ft
    /\ result' = SelectAnswer(ft)
    /\ pc' = "done"

\* The end of the loop body: the `for` takes its next value, or the loop is
\* over and the answer is returned.
EndOfIteration(ft) ==
    IF LoopContinues(i)
    THEN /\ i' = i + 1
         /\ pc' = "loop_head"
         /\ final_text' = ft
         /\ UNCHANGED result
    ELSE /\ i' = i
         /\ Return(ft)

\* Lines 455-475: the transcript and the conversation are created; building
\* the system message or the tool list raises on a bad catalog, which the
\* outermost handler (lines 608-611) turns into the returned text.
ProcessQuery ==
    /\ pc = "idle"
    /\ final_text' = <<>>
    /\ IF available_tools = "bad"
       THEN /\ result' = CriticalError
            /\ pc' = "done"
            /\ UNCHANGED <<messages, i>>
       ELSE /\ messages' = <<SystemMessage, UserMessage>>
            /\ i' = 0
            /\ pc' = "loop_head"
            /\ UNCHANGED result
    /\ UNCHANGED <<cleanupVars, searchVars, parseVars, resultsVars, connectVars, restVars,
                   llm_request, dialect, backend, available_tools, llm_response, tool_calls, k,
                   tool_results, llm_calls, tool_invocations, llm_in_flight,
                   tool_in_flight, varied, free>>

\* Lines 481-484: the model call of iteration i+1 is started and awaited.
CallLlm ==
    /\ pc = "loop_head"
    /\ pc' = "await_llm"
    /\ llm_calls' = llm_calls + 1
    /\ llm_in_flight' = llm_in_flight + 1
    /\ llm_request' = Payload(dialect, messages)
    /\ UNCHANGED <<cleanupVars, searchVars, parseVars, resultsVars, connectVars, restVars,
                   dialect, backend, available_tools, i, messages, final_text,
                   llm_response, tool_calls, k, tool_results, result, tool_invocations,
                   tool_in_flight, varied, free>>

\* Mutant: the timeout handler records the fragment and does not `break`.
LlmTimeout_Continue ==
    /\ pc = "await_llm"
    /\ llm_in_flight' = llm_in_flight - 1
    /\ EndOfIteration(Append(final_text, LlmTimeoutText(i + 1)))
    /\ UNCHANGED <<cleanupVars, searchVars, parseVars, resultsVars, connectVars, restVars,
                   llm_request, dialect, backend, available_tools, messages, llm_response,
                   tool_calls, k, tool_results, llm_calls, tool_invocations,
                   tool_in_flight, varied, free>>

\* Lines 592-596: asyncio.wait_for gives up on the model call.
LlmTimeout ==
    /\ pc = "await_llm"
    /\ llm_in_flight' = llm_in_flight - 1
    /\ Return(Append(final_text, LlmTimeoutText(i + 1)))
    /\ UNCHANGED <<cleanupVars, searchVars, parseVars, resultsVars, connectVars, restVars,
                   llm_request, dialect, backend, available_tools, i, messages, llm_response,
                   tool_calls, k, tool_results, llm_calls, tool_invocations,
                   tool_in_flight, varied, free>>

\* Lines 485-507 and 598-602: the model call returned llm_response.
OnLlmResponse(raw, isFree) ==
    LET response == _call_llm(dialect, raw)
        content == response.content
        tcs == response.tool_calls
    IN  /\ llm_in_flight' = llm_in_flight - 1
        /\ llm_response' = response
        /\ IF ~response.isdict
           THEN \* llm_response.get raises: `except Exception`, line 598
                /\ Return(Append(final_text, IterationErrorText(i + 1)))
                /\ UNCHANGED <<messages, tool_calls, k, tool_results, varied, free>>
           ELSE LET ft == IF Truthy(content) THEN Append(final_text, content)
                          ELSE final_text
                IN IF Len(tcs) = 0
                   THEN /\ Return(ft)        \* line 499: break
                        /\ UNCHANGED <<messages, tool_calls, k, tool_results,
                                       varied, free>>
                   ELSE /\ final_text' = ft
                        /\ UNCHANGED <<result>>
                        /\ messages' = Append(messages, AssistantMessage(content, tcs))
                        /\ tool_calls' = tcs
                        /\ tool_results' = <<>>
                        /\ k' = 1
                        /\ pc' = "tool_loop"
                        /\ free' = isFree
                        /\ varied' = IF isFree THEN varied + Len(tcs) ELSE varied
        /\ UNCHANGED <<cleanupVars, searchVars, parseVars, resultsVars, connectVars, restVars,
                   llm_request, dialect, backend, available_tools, i, llm_calls,
                       tool_invocations, tool_in_flight>>

\* The model answers without requesting a tool, or the call fails.
LlmReplies ==
    /\ pc = "await_llm"
    /\ \E raw \in TerminalRaws(dialect, i + 1) : OnLlmResponse(raw, FALSE)

\* The model requests the plain single tool call.
LlmRequestsTool ==
    /\ pc = "await_llm"
    /\ OnLlmResponse(PlainRaw(dialect, messages, i + 1), FALSE)

\* The model requests 1..MaxCalls tool calls of any shape.
LlmRequestsToolsFreely ==
    /\ pc = "await_llm"
    /\ \E n \in 1..MaxCalls :
          /\ varied + n <= MaxVaried
          /\ \E raw \in FreeRaws(dialect, messages, i + 1, n) :
                OnLlmResponse(raw, TRUE)

\* The tool call being handled (lines 510-513).
CurrentCall == tool_calls[k]
InToolLoop == pc = "tool_loop" /\ k <= Len(tool_calls)

\* Lines 541-548, 553-560, 567-574: the outcome text goes to tool_results and
\* into one tool-role message keyed by the call's id; on to the next call.
RecordToolResult(text) ==
    /\ tool_results' = Append(tool_results, text)
    /\ messages' = Append(messages, ToolMessage(CurrentCall.id, text))
    /\ k' = k + 1

\* Mutant: the element is taken again and again.
MalformedToolCall_Retries ==
    /\ InToolLoop
    /\ ~CurrentCall.wf
    /\ UNCHANGED vars
\* Lines 511-512 on an element that is not an object: tool_call.get (or
\* function.get) raises outside the inner try, so `except Exception` of the
\* iteration (lines 598-602) ends the loop.
MalformedToolCall ==
    /\ InToolLoop
    /\ ~CurrentCall.wf
    /\ Return(Append(final_text, IterationErrorText(i + 1)))
    /\ UNCHANGED <<cleanupVars, searchVars, parseVars, resultsVars, connectVars, restVars,
                   llm_request, dialect, backend, available_tools, i, messages, llm_response,
                   tool_calls, k, tool_results, llm_calls, tool_invocations,
                   llm_in_flight, tool_in_flight, varied, free>>

\* Mutant: the failure ends the iteration like any other exception.
ToolCallFailsEarly_Aborts ==
    /\ InToolLoop
    /\ CurrentCall.wf
    /\ CurrentCall.arguments = "bad" \/ backend = "none"
    /\ Return(Append(final_text, IterationErrorText(i + 1)))
    /\ UNCHANGED <<cleanupVars, searchVars, parseVars, resultsVars, connectVars, restVars,
                   llm_request, dialect, backend, available_tools, i, messages,
                   llm_response, tool_calls, k, tool_results, llm_calls,
                   tool_invocations, llm_in_flight, tool_in_flight, varied, free>>
\* Lines 519 and 523-534 raising before anything is awaited: json.loads
\* rejects the arguments, or there is no backend (self.session is None);
\* lines 562-574 record the error text.
ToolCallFailsEarly ==
    /\ InToolLoop
    /\ CurrentCall.wf
    /\ CurrentCall.arguments = "bad" \/ backend = "none"
    /\ RecordToolResult(ToolErrorText(CurrentCall.name))
    /\ UNCHANGED <<cleanupVars, searchVars, parseVars, resultsVars, connectVars, restVars,
                   llm_request, dialect, backend, available_tools, pc, i, final_text,
                   llm_response, tool_calls, result, llm_calls, tool_invocations,
                   llm_in_flight, tool_in_flight, varied, free>>

\* One call_tool invocation as the backend sees it.
Invocation(it, pos, name) == [iteration |-> it, position |-> pos, name |-> name]

\* Mutant: call_tool is started and not awaited before the next call.
DispatchTool_NoAwait ==
    /\ InToolLoop
    /\ CurrentCall.wf
    /\ CurrentCall.arguments = "json"
    /\ backend # "none"
    /\ tool_invocations' = Append(tool_invocations, Invocation(i + 1, k, CurrentCall.name))
    /\ tool_in_flight' = tool_in_flight \cup {k}
    /\ k' = k + 1
    /\ UNCHANGED <<cleanupVars, searchVars, parseVars, resultsVars, connectVars, restVars,
                   llm_request, dialect, backend, available_tools, pc, i, messages,
                   final_text, llm_response, tool_calls, tool_results, result,
                   llm_calls, llm_in_flight, varied, free>>

\* Mutant: the call is dispatched whether or not a backend is connected.
DispatchTool_Unchecked ==
    /\ InToolLoop
    /\ CurrentCall.wf
    /\ CurrentCall.arguments = "json"
    /\ tool_invocations' = Append(tool_invocations, Invocation(i + 1, k, CurrentCall.name))
    /\ tool_in_flight' = tool_in_flight \cup {k}
    /\ pc' = "await_tool"
    /\ UNCHANGED <<cleanupVars, searchVars, parseVars, resultsVars, connectVars, restVars,
                   llm_request, dialect, backend, available_tools, i, messages, final_text,
                   llm_response, tool_calls, k, tool_results, result, llm_calls,
                   llm_in_flight, varied, free>>

\* Lines 523-534: call_tool is invoked on the backend and awaited.
DispatchTool ==
    /\ InToolLoop
    /\ CurrentCall.wf
    /\ CurrentCall.arguments = "json"
    /\ backend # "none"
    /\ tool_invocations' = Append(tool_invocations, Invocation(i + 1, k, CurrentCall.name))
    /\ tool_in_flight' = tool_in_flight \cup {k}
    /\ pc' = "await_tool"
    /\ UNCHANGED <<cleanupVars, searchVars, parseVars, resultsVars, connectVars, restVars,
                   llm_request, dialect, backend, available_tools, i, messages, final_text,
                   llm_response, tool_calls, k, tool_results, result, llm_calls,
                   llm_in_flight, varied, free>>

ToolDone ==
    /\ pc = "await_tool"
    /\ tool_in_flight' = tool_in_flight \ {k}
    /\ pc' = "tool_loop"
    /\ UNCHANGED <<cleanupVars, searchVars, parseVars, resultsVars, connectVars, restVars,
                   llm_request, dialect, backend, available_tools, i, final_text,
                   llm_response, tool_calls, result, llm_calls, tool_invocations,
                   llm_in_flight, varied, free>>

\* Lines 537-548: call_tool returned a content list.
ToolSucceeds ==
    /\ ToolDone
    /\ \E items \in (IF free THEN ToolContents ELSE {PlainContent}) :
          RecordToolResult(_format_tool_result(items))

\* Mutant: the tool timeout is not caught per call and ends the iteration
\* through the handler of lines 592-596.
ToolTimesOut_Fatal ==
    /\ pc = "await_tool"
    /\ free
    /\ tool_in_flight' = tool_in_flight \ {k}
    /\ Return(Append(final_text, LlmTimeoutText(i + 1)))
    /\ UNCHANGED <<cleanupVars, searchVars, parseVars, resultsVars, connectVars, restVars,
                   llm_request, dialect, backend, available_tools, i, messages,
                   llm_response, tool_calls, k, tool_results, llm_calls,
                   tool_invocations, llm_in_flight, varied, free>>

\* Lines 550-560: asyncio.wait_for gives up on the tool call.
ToolTimesOut ==
    /\ ToolDone
    /\ free
    /\ RecordToolResult(ToolTimeoutText(CurrentCall.name))

\* Lines 562-574: call_tool (or formatting its result) raises.
ToolRaises ==
    /\ ToolDone
    /\ free
    /\ RecordToolResult(ToolErrorText(CurrentCall.name))

\* Lines 576-582 and the loop header: after the last tool call, either the
\* wrap-up model call is started, or the next iteration, or the loop is over
\* and the answer is returned.
AfterTools ==
    /\ pc = "tool_loop"
    /\ k > Len(tool_calls)
    /\ IF WrapUpDue(i, tool_results)
       THEN /\ pc' = "await_final"
            /\ llm_calls' = llm_calls + 1
            /\ llm_in_flight' = llm_in_flight + 1
            /\ llm_request' = Payload(dialect, messages)
            /\ UNCHANGED <<i, final_text, result>>
       ELSE /\ EndOfIteration(final_text)
            /\ UNCHANGED <<llm_calls, llm_in_flight, llm_request>>
    /\ UNCHANGED <<cleanupVars, searchVars, parseVars, resultsVars, connectVars, restVars,
                   dialect, backend, available_tools, messages,
                   llm_response, tool_calls, k, tool_results, tool_invocations,
                   tool_in_flight, varied, free>>

\* Lines 583-585 and 589-590: the wrap-up call returned; end of the body.
FinalReturns ==
    /\ pc = "await_final"
    /\ \E raw \in TerminalRaws(dialect, i + 1) \cup {PlainRaw(dialect, messages, i + 1)} :
          LET final_response == _call_llm(dialect, raw)
              final_content == final_response.content
          IN  EndOfIteration(IF final_response.isdict /\ Truthy(final_content)
                             THEN Append(final_text, FinalAnswerText(final_content))
                             ELSE final_text)
    /\ llm_in_flight' = llm_in_flight - 1
    /\ UNCHANGED <<cleanupVars, searchVars, parseVars, resultsVars, connectVars, restVars,
                   llm_request, dialect, backend, available_tools, messages, llm_response,
                   tool_calls, k, tool_results, llm_calls, tool_invocations,
                   tool_in_flight, varied, free>>

\* Lines 586-588: the wrap-up call timed out; end of the body.
FinalTimeout ==
    /\ pc = "await_final"
    /\ EndOfIteration(Append(final_text, FinalTimeoutText))
    /\ llm_in_flight' = llm_in_flight - 1
    /\ UNCHANGED <<cleanupVars, searchVars, parseVars, resultsVars, connectVars, restVars,
                   llm_request, dialect, backend, available_tools, messages, llm_response,
                   tool_calls, k, tool_results, llm_calls, tool_invocations,
                   tool_in_flight, varied, free>>

Next ==
    \/ ProcessQuery
    \/ CallLlm
    \/ LlmTimeout
    \/ LlmReplies
    \/ LlmRequestsTool
    \/ LlmRequestsToolsFreely
    \/ MalformedToolCall
    \/ ToolCallFailsEarly
    \/ DispatchTool
    \/ ToolSucceeds
    \/ ToolTimesOut
    \/ ToolRaises
    \/ AfterTools
    \/ FinalReturns
    \/ FinalTimeout

Spec == Init /\ [][Next]_vars
\* The query under a running event loop: a step that can be taken is taken.
\* Every await of process_query is bounded, the model call by the timeout of
\* the HTTP client and the tool call by asyncio.wait_for (lines 523-534), so
\* each call in flight returns, raises or times out.
LiveSpec == Init /\ [][Next]_vars /\ WF_vars(Next)

\* ----------------------------------------------------------------- cleanup
\* MCPClient.cleanup (lines 906-932), called on the client as connect_to_server
\* left it, up to MaxCleanups times in succession.  Every close step either
\* succeeds or raises an Exception.
Release(res, ok) == [call |-> cleanup_calls + 1, res |-> res, ok |-> ok]

\* AsyncExitStack.aclose: the contexts are exited last-in first-out, each one
\* attempted whether or not an earlier exit raised.
Unwind(contexts, oks) ==
    [j \in 1..Len(contexts) |->
        Release(contexts[Len(contexts) + 1 - j], oks[Len(contexts) + 1 - j])]

\* Mutant: a failure of the first close step ends cleanup at once.
CloseHttpClient_SkipsRest ==
    /\ cleanup_pc = "idle"
    /\ cleanup_calls < MaxCleanups
    /\ \E ok \in BOOLEAN :
          /\ releases' = Append(releases, Release("http_client", ok))
          /\ http_client' = (IF ok THEN "closed" ELSE http_client)
          /\ IF ok
             THEN /\ cleanup_pc' = (IF mcp_client # "absent" THEN "mcp_client"
                                                             ELSE "exit_stack")
                  /\ UNCHANGED cleanup_calls
             ELSE /\ cleanup_pc' = "idle"
                  /\ cleanup_calls' = cleanup_calls + 1
    /\ UNCHANGED <<queryVars, searchVars, parseVars, resultsVars, connectVars, restVars,
                   mcp_client, exit_stack, cleanup_raised>>
\* Lines 912-915: the client of the LLM endpoint is closed first; an exception
\* of aclose is swallowed.  Line 917: the next step is the HTTP tool client
\* when the attribute exists, else the exit stack (set in __init__, so that
\* hasattr at line 923 always holds).
CloseHttpClient ==
    /\ cleanup_pc = "idle"
    /\ cleanup_calls < MaxCleanups
    /\ \E ok \in BOOLEAN :
          /\ releases' = Append(releases, Release("http_client", ok))
          /\ http_client' = (IF ok THEN "closed" ELSE http_client)
    /\ cleanup_pc' = (IF mcp_client # "absent" THEN "mcp_client" ELSE "exit_stack")
    /\ UNCHANGED <<queryVars, searchVars, parseVars, resultsVars, connectVars, restVars,
                   mcp_client, exit_stack, cleanup_calls, cleanup_raised>>

\* Lines 917-921: the HTTP tool client is closed; an exception is swallowed.
CloseMcpClient ==
    /\ cleanup_pc = "mcp_client"
    /\ \E ok \in BOOLEAN :
          /\ releases' = Append(releases, Release("mcp_client", ok))
          /\ mcp_client' = (IF ok THEN "closed" ELSE mcp_client)
    /\ cleanup_pc' = "exit_stack"
    /\ UNCHANGED <<queryVars, searchVars, parseVars, resultsVars, connectVars, restVars,
                   http_client, exit_stack, cleanup_calls, cleanup_raised>>

\* Mutant: the attribute error of a None exit stack is not caught.
CloseExitStack_Unguarded ==
    /\ cleanup_pc = "exit_stack"
    /\ IF exit_stack = None
       THEN /\ releases' = Append(releases, Release("exit_stack", FALSE))
            /\ cleanup_raised' = TRUE
            /\ cleanup_pc' = "raised"
            /\ UNCHANGED cleanup_calls
       ELSE /\ \E oks \in [1..Len(exit_stack[2]) -> BOOLEAN] :
                  releases' = releases \o Unwind(exit_stack[2], oks)
            /\ cleanup_calls' = cleanup_calls + 1
            /\ cleanup_pc' = "idle"
            /\ UNCHANGED cleanup_raised
    /\ exit_stack' = None
    /\ UNCHANGED <<queryVars, searchVars, parseVars, resultsVars, connectVars, restVars,
                   http_client, mcp_client>>
\* Lines 923-932: the exit stack is closed, which exits the session and then
\* the transport; on a stack that an earlier cleanup set to None the call
\* `self.exit_stack.aclose()` is an AttributeError.  Either exception is
\* caught and logged, the stack is set to None, and cleanup returns.
CloseExitStack ==
    /\ cleanup_pc = "exit_stack"
    /\ IF exit_stack = None
       THEN releases' = Append(releases, Release("exit_stack", FALSE))
       ELSE \E oks \in [1..Len(exit_stack[2]) -> BOOLEAN] :
               releases' = releases \o Unwind(exit_stack[2], oks)
    /\ exit_stack' = None
    /\ cleanup_calls' = cleanup_calls + 1
    /\ cleanup_pc' = "idle"
    /\ UNCHANGED <<queryVars, searchVars, parseVars, resultsVars, connectVars, restVars,
                   http_client, mcp_client, cleanup_raised>>

CleanupNext ==
    \/ CloseHttpClient
    \/ CloseMcpClient
    \/ CloseExitStack

CleanupSpec == Init /\ [][CleanupNext]_vars

\* ------------------------------------------------- YandexSearchAPI.search
\* The id of the operation the backend starts for the page at position idx
\* of pages_to_fetch (line 428).
OpId(idx) == "op" \o ToString(idx)
\* The page an operation id was returned for.
PageOf(op_id) ==
    pages_to_fetch[CHOOSE idx \in 1..Len(pages_to_fetch) : OpId(idx) = op_id]
\* The document the backend finds for a page.
PageDoc(page) ==
    [url |-> "u" \o ToString(page), domain |-> "d", title |-> <<"t">>,
     modtime |-> "m", headline |-> <<"h">>, properties |-> None,
     passages |-> <<<<"p">>>>, broken |-> FALSE]
\* operation["response"]["rawData"] of a done operation: the base64 text of
\* a payload, a text that is not base64 of UTF-8, or nothing (a done
\* operation without response, such as a failed one).
B64(xml_text) == <<"b64", xml_text>>
RawDatas(page) ==
    {B64(Xml(<<PageDoc(page)>>)), B64(MalformedXml),
     <<"invalid", MalformedXml>>, <<"missing", MalformedXml>>}
\* Lines 446-448: base64.b64decode(...).decode("utf-8"), which raises on a
\* missing key and on text that cannot be decoded.
DecodeRaises(raw) == raw[1] # "b64"
b64decode(raw) == raw[2]

\* Line 457: parsed.extend(...) over the decoded payloads, in order.
RECURSIVE ParseAll(_)
ParseAll(xmls) ==
    IF xmls = <<>> THEN <<>>
    ELSE _parse_search_results(Head(xmls)) \o ParseAll(Tail(xmls))

\* Mutant: the exception leaves search().
Abort_Raises ==
    /\ search_pc' = "raised"
    /\ aborted' = TRUE
    /\ UNCHANGED search_result
\* Lines 461-463: any exception inside the session block ends the search
\* with an empty list.
Abort ==
    /\ search_pc' = "done"
    /\ search_result' = <<>>
    /\ aborted' = TRUE

\* Mutant: the records of the last payload come first.
Finish_LastFirst(xmls) ==
    /\ search_pc' = "done"
    /\ search_result' = ParseAll([j \in 1..Len(xmls) |-> xmls[Len(xmls) + 1 - j]])
    /\ UNCHANGED aborted
\* Lines 454-459: the decoded payloads are parsed and the records returned.
Finish(xmls) ==
    IF \E j \in 1..Len(xmls) : ParseRaises(xmls[j])
    THEN Abort
    ELSE /\ search_pc' = "done"
         /\ search_result' = ParseAll(xmls)
         /\ UNCHANGED aborted

\* Lines 432-434: the poll loop takes the operation at position idx, or is
\* over.  pl is the poll log and a the attempt counter at that point.
PollFrom(idx, ops, xmls, pl, a) ==
    IF idx <= Len(ops)
    THEN /\ search_pc' = "poll"
         /\ op_idx' = idx
         /\ attempts' = 0
         /\ polls' = Append(pl, [op |-> ops[idx], requests |-> 0,
                                 sleeps |-> 0, done |-> FALSE,
                                 decoded |-> 0, status |-> "none"])
         /\ UNCHANGED <<search_result, aborted>>
    ELSE /\ op_idx' = idx
         /\ attempts' = a
         /\ polls' = pl
         /\ Finish(xmls)

\* Lines 388-393: search() is called; the submit loop takes the first page.
Search ==
    /\ search_pc = "idle"
    /\ operations' = <<>>
    /\ page_idx' = 1
    /\ xml_results' = <<>>
    /\ IF pages_to_fetch = <<>>
       THEN PollFrom(1, <<>>, <<>>, polls, attempts)
       ELSE /\ search_pc' = "submit"
            /\ UNCHANGED <<op_idx, attempts, polls, search_result, aborted>>
    /\ UNCHANGED <<pages_to_fetch, submissions, callVars, queryVars, cleanupVars, parseVars,
                   resultsVars, connectVars, restVars>>

\* Lines 393 and 430-432: the submit loop takes its next page, or the poll
\* phase begins with the operations ops.
NextPage(ops) ==
    /\ page_idx' = page_idx + 1
    /\ IF page_idx < Len(pages_to_fetch)
       THEN UNCHANGED <<search_pc, op_idx, attempts, polls, search_result, aborted>>
       ELSE PollFrom(1, ops, xml_results, polls, attempts)

Submitted(status) ==
    Append(submissions, [page |-> pages_to_fetch[page_idx], status |-> status])

\* Lines 420-428: the page is posted and answered 200 with an operation id.
SubmitAccepted ==
    /\ search_pc = "submit"
    /\ submissions' = Submitted("200")
    /\ operations' = Append(operations, OpId(page_idx))
    /\ NextPage(Append(operations, OpId(page_idx)))
    /\ UNCHANGED <<pages_to_fetch, xml_results, callVars, queryVars, cleanupVars, parseVars,
                   resultsVars, connectVars, restVars>>

\* Mutant: a page answered with another status ends the submit phase.
SubmitRejected_Stops ==
    /\ search_pc = "submit"
    /\ submissions' = Submitted("non200")
    /\ page_idx' = page_idx + 1
    /\ PollFrom(1, operations, xml_results, polls, attempts)
    /\ UNCHANGED <<pages_to_fetch, operations, xml_results, callVars, queryVars,
                   cleanupVars, parseVars,
                   resultsVars, connectVars, restVars>>
\* Lines 424-427: the page is answered with another status: logged, skipped.
SubmitRejected ==
    /\ search_pc = "submit"
    /\ submissions' = Submitted("non200")
    /\ NextPage(operations)
    /\ UNCHANGED <<pages_to_fetch, operations, xml_results, callVars, queryVars,
                   cleanupVars, parseVars,
                   resultsVars, connectVars, restVars>>

\* Lines 420-428 and 461-463: posting the page or reading its reply raises.
SubmitRaises ==
    /\ search_pc = "submit"
    /\ submissions' = Submitted("raised")
    /\ Abort
    /\ UNCHANGED <<pages_to_fetch, page_idx, operations, op_idx, attempts,
                   xml_results, polls, callVars, queryVars, cleanupVars, parseVars,
                   resultsVars, connectVars, restVars>>

\* The poll log after one more status request for the current operation,
\* answered with the given HTTP status ("none" when the request raised).
Polled(pl, status) ==
    [pl EXCEPT ![Len(pl)].requests = @ + 1, ![Len(pl)].status = status]
Slept(pl) == [pl EXCEPT ![Len(pl)].sleeps = @ + 1]
Done(pl) == [pl EXCEPT ![Len(pl)].done = TRUE]
Decoded(pl) == [pl EXCEPT ![Len(pl)].decoded = @ + 1]

\* Mutant: an operation that runs out of attempts fails the search.
Retry_FailsBatch(status) ==
    /\ IF attempts + 1 < max_attempts
       THEN /\ attempts' = attempts + 1
            /\ polls' = Slept(Polled(polls, status))
            /\ UNCHANGED <<search_pc, op_idx, search_result, aborted>>
       ELSE /\ attempts' = attempts + 1
            /\ polls' = Slept(Polled(polls, status))
            /\ Abort
            /\ UNCHANGED op_idx
    /\ UNCHANGED <<pages_to_fetch, page_idx, operations, xml_results,
                   submissions, callVars, queryVars, cleanupVars, parseVars,
                   resultsVars, connectVars, restVars>>
\* Lines 439-441 and 451-452, then the loop test of line 434: one sleep, the
\* counter goes up, and the operation is given up at max_attempts.
Retry(status) ==
    /\ IF attempts + 1 < max_attempts
       THEN /\ attempts' = attempts + 1
            /\ polls' = Slept(Polled(polls, status))
            /\ UNCHANGED <<search_pc, op_idx, search_result, aborted>>
       ELSE PollFrom(op_idx + 1, operations, xml_results,
                     Slept(Polled(polls, status)), attempts + 1)
    /\ UNCHANGED <<pages_to_fetch, page_idx, operations, xml_results,
                   submissions, callVars, queryVars, cleanupVars, parseVars,
                   resultsVars, connectVars, restVars>>

\* Lines 435-441: the status request is answered with a status other than 200.
PollNot200 ==
    /\ search_pc = "poll"
    /\ Retry("non200")

\* Lines 443-444 and 451-452: answered 200, the operation is not done yet.
PollNotDone ==
    /\ search_pc = "poll"
    /\ Retry("200")

\* Mutant: there is no `break`, polling goes on after the operation was
\* reported done.
PollDone_KeepsPolling ==
    /\ search_pc = "poll"
    /\ \E raw \in RawDatas(PageOf(operations[op_idx])) :
          IF DecodeRaises(raw)
          THEN /\ Abort
               /\ polls' = Done(Polled(polls, "200"))
               /\ UNCHANGED <<op_idx, attempts, xml_results>>
          ELSE /\ xml_results' = Append(xml_results, b64decode(raw))
               /\ IF attempts + 1 < max_attempts
                  THEN /\ attempts' = attempts + 1
                       /\ polls' = Slept(Decoded(Done(Polled(polls, "200"))))
                       /\ UNCHANGED <<search_pc, op_idx, search_result, aborted>>
                  ELSE PollFrom(op_idx + 1, operations,
                                Append(xml_results, b64decode(raw)),
                                Slept(Decoded(Done(Polled(polls, "200")))),
                                attempts + 1)
    /\ UNCHANGED <<pages_to_fetch, page_idx, operations, submissions,
                   callVars, queryVars, cleanupVars, parseVars,
                   resultsVars, connectVars, restVars>>
\* Lines 443-450: answered 200, the operation is done: its payload is
\* decoded and appended and the loop over attempts is left, or decoding
\* raises.
PollDone ==
    /\ search_pc = "poll"
    /\ \E raw \in RawDatas(PageOf(operations[op_idx])) :
          IF DecodeRaises(raw)
          THEN /\ Abort
               /\ polls' = Done(Polled(polls, "200"))
               /\ UNCHANGED <<op_idx, attempts, xml_results>>
          ELSE /\ xml_results' = Append(xml_results, b64decode(raw))
               /\ PollFrom(op_idx + 1, operations,
                           Append(xml_results, b64decode(raw)),
                           Decoded(Done(Polled(polls, "200"))), attempts)
    /\ UNCHANGED <<pages_to_fetch, page_idx, operations, submissions,
                   callVars, queryVars, cleanupVars, parseVars,
                   resultsVars, connectVars, restVars>>

\* Lines 435-437 and 461-463: the status request raises.
PollRaises ==
    /\ search_pc = "poll"
    /\ Abort
    /\ polls' = Polled(polls, "none")
    /\ UNCHANGED <<pages_to_fetch, page_idx, operations, op_idx, attempts,
                   xml_results, submissions, callVars, queryVars, cleanupVars, parseVars,
                   resultsVars, connectVars, restVars>>

\* Mutant: the loop consumes the list it iterates (pages_to_fetch.pop(0)).
ListAfterCall_Popped(pages) == <<>>
\* Lines 392-428: the page list is only iterated, `for page in
\* pages_to_fetch`; this is the list object after the call.
ListAfterCall(pages) == pages

\* Lines 325-333: search() has returned and is called again; a call that
\* passes no page list gets the default object, as the last call that used
\* it left it.  The later calls pass no list, an empty list or one page.
SearchAgain ==
    /\ search_pc = "done"
    /\ search_calls < MaxSearches
    /\ search_calls' = search_calls + 1
    /\ default_pages' = (IF uses_default THEN ListAfterCall(pages_to_fetch)
                         ELSE default_pages)
    /\ \/ /\ uses_default' = TRUE
          /\ pages_to_fetch' = default_pages'
       \/ \E passed \in {pages \in PageLists : Len(pages) <= 1} :
             /\ uses_default' = FALSE
             /\ pages_to_fetch' = passed
    /\ search_pc' = "idle"
    /\ page_idx' = 0
    /\ operations' = <<>>
    /\ op_idx' = 0
    /\ attempts' = 0
    /\ xml_results' = <<>>
    /\ search_result' = <<>>
    /\ aborted' = FALSE
    /\ submissions' = <<>>
    /\ polls' = <<>>
    /\ UNCHANGED <<queryVars, cleanupVars, parseVars, resultsVars, connectVars, restVars>>

SearchNext ==
    \/ Search
    \/ SearchAgain
    \/ SubmitAccepted
    \/ SubmitRejected
    \/ SubmitRaises
    \/ PollNot200
    \/ PollNotDone
    \/ PollDone
    \/ PollRaises

SearchSpec == SearchInit /\ [][SearchNext]_vars

\* ---------------------------------------------------- _parse_search_results
\* The parser applied to one payload.
ParseSearchResults ==
    /\ parse_pc = "idle"
    /\ IF ParseRaises(xml_content)
       THEN /\ parse_pc' = "raised"
            /\ UNCHANGED parsed_results
       ELSE /\ parse_pc' = "returned"
            /\ parsed_results' = _parse_search_results(xml_content)
    /\ UNCHANGED <<xml_content, queryVars, cleanupVars, searchVars, resultsVars,
                   connectVars, restVars>>

ParseNext == ParseSearchResults

ParseSpec == ParseInit /\ [][ParseNext]_vars

\* ----------------------------------------------- filtering and rendering
\* main_bot.py, lines 117-120.
OptimizeResults ==
    /\ results_pc = "idle"
    /\ optimized_results' = optimize_results(results, min_length, max_length)
    /\ results_pc' = "optimized"
    /\ UNCHANGED <<results, min_length, max_length, formatted, queryVars,
                   cleanupVars, searchVars, parseVars, connectVars, restVars>>

\* main_bot.py, line 123.
FormatResults ==
    /\ results_pc = "optimized"
    /\ formatted' = format_results(optimized_results, "q")
    /\ results_pc' = "formatted"
    /\ UNCHANGED <<results, min_length, max_length, optimized_results, queryVars,
                   cleanupVars, searchVars, parseVars, connectVars, restVars>>

ResultsNext ==
    \/ OptimizeResults
    \/ FormatResults

ResultsSpec == ResultsInit /\ [][ResultsNext]_vars

\* ------------------------------------------- start-up and connect_to_server
\* shutil.which(cmd) finds the command on the search path.
which(cmd) == cmd \in on_path

\* Mutant: the last candidate found is taken.
find_python_executable_Last ==
    LET python_variants == <<"python3", "python", "python3.10",
                             "python3.11", "python3.12", "python3.13">>
        found == {j \in 1..Len(python_variants) : which(python_variants[j])}
    IN  IF found # {}
        THEN python_variants[CHOOSE j \in found : \A h \in found : h <= j]
        ELSE IF sys_executable # "" THEN sys_executable
        ELSE "python3"
\* Lines 158-193: the first candidate on the search path, else the running
\* interpreter, else the default name.
find_python_executable ==
    LET python_variants == <<"python3", "python", "python3.10",
                             "python3.11", "python3.12", "python3.13">>
        found == {j \in 1..Len(python_variants) : which(python_variants[j])}
    IN  IF found # {}
        THEN python_variants[CHOOSE j \in found : \A h \in found : j <= h]
        ELSE IF sys_executable # "" THEN sys_executable
        ELSE "python3"

\* Mutant: only the host of an HTTP specification is required.
Invalid_HostOnly(cfg) ==
    \/ cfg.connect_type = "http" /\ cfg.host = ""
    \/ cfg.connect_type = "mcp_lookup" /\ cfg.name = ""
\* Lines 261 and 336: a required field of the chosen variant is missing.
Invalid(cfg) ==
    \/ cfg.connect_type = "http" /\ (cfg.host = "" \/ cfg.port = 0)
    \/ cfg.connect_type = "mcp_lookup" /\ cfg.name = ""

\* The command the subprocess is spawned with: the executable of the
\* specification (line 305), or the command of the registry entry, replaced
\* by find_python_executable() when it is not on the search path (lines
\* 360-372).
Command ==
    IF server_config.connect_type = "executable" THEN server_config.executable
    ELSE IF which("node") THEN "node"
    ELSE find_python_executable

\* How net_log records the outcome of a request.
Outcome(ok) == IF ok THEN "ok" ELSE "failed"

\* Mutant: an exception of a spawn or handshake under a registry entry
\* leaves connect_to_server as it is.
Raise_Unwrapped(err) ==
    /\ connect_pc' = "raised"
    /\ connect_error' = err
\* connect_to_server raises err; within the try blocks of the registry
\* lookup (lines 351-407) the exception is logged instead and line 410
\* raises ValueError.
Raise(err) ==
    /\ connect_pc' = "raised"
    /\ connect_error' = (IF server_config.connect_type = "mcp_lookup"
                         THEN "ValueError" ELSE err)

\* What no start-up step changes.
ConnectFrame ==
    UNCHANGED <<dialect, pc, i, messages, final_text, llm_response, tool_calls, k,
                tool_results, result, llm_calls, tool_invocations, llm_in_flight,
                tool_in_flight, varied, free, llm_request, http_client, cleanup_pc,
                cleanup_calls, cleanup_raised, releases, searchVars, parseVars,
                resultsVars, restVars, on_path, sys_executable, registry>>

\* api.py, lines 41-56: the configuration is loaded and the client created;
\* an exception is logged and the Api object is left without a client.
LoadConfig ==
    /\ connect_pc = "unloaded"
    /\ \E ok \in BOOLEAN : connect_pc' = (IF ok THEN "loaded" ELSE "no_client")
    /\ ConnectFrame
    /\ UNCHANGED <<server_config, connect_error, net_log, serving, backend,
                   available_tools, mcp_client, exit_stack>>

\* api.py, line 62, and lines 254-290, 335-369: connect_to_server is called;
\* the specification is validated and the executable resolved.
Connect ==
    /\ connect_pc = "loaded"
    /\ LET cfg == server_config
           exe == IF cfg.executable = "" THEN find_python_executable
                  ELSE cfg.executable
       IN  CASE Invalid(cfg) ->
                  /\ Raise("ValueError")
                  /\ UNCHANGED <<server_config, mcp_client, backend>>
             [] ~Invalid(cfg) /\ cfg.connect_type = "http" ->
                  /\ mcp_client' = "open"
                  /\ backend' = "http"
                  /\ connect_pc' = "probe"
                  /\ UNCHANGED <<server_config, connect_error>>
             [] cfg.connect_type = "executable" ->
                  /\ server_config' = [cfg EXCEPT !.executable = exe]
                  /\ IF which(exe)
                     THEN connect_pc' = "spawn" /\ UNCHANGED connect_error
                     ELSE Raise("FileNotFoundError")
                  /\ UNCHANGED <<mcp_client, backend>>
             [] OTHER ->
                  /\ IF registry = "with_name"
                     THEN connect_pc' = "spawn" /\ UNCHANGED connect_error
                     ELSE Raise("ValueError")
                  /\ UNCHANGED <<server_config, mcp_client, backend>>
    /\ ConnectFrame
    /\ UNCHANGED <<net_log, serving, available_tools, exit_stack>>

\* Mutant: the answer of the status probe is not looked at.
Probe_IgnoresStatus ==
    /\ connect_pc = "probe"
    /\ \E ok \in BOOLEAN :
          /\ net_log' = Append(net_log, "GET /status " \o Outcome(ok))
          /\ connect_pc' = "catalog"
    /\ UNCHANGED connect_error
    /\ ConnectFrame
    /\ UNCHANGED <<server_config, serving, backend, available_tools, mcp_client,
                   exit_stack>>
\* Lines 90-102 and 270: the status probe; anything but 200 is an Exception.
Probe ==
    /\ connect_pc = "probe"
    /\ \E ok \in BOOLEAN :
          /\ net_log' = Append(net_log, "GET /status " \o Outcome(ok))
          /\ IF ok THEN connect_pc' = "catalog" /\ UNCHANGED connect_error
             ELSE Raise("Exception")
    /\ ConnectFrame
    /\ UNCHANGED <<server_config, serving, backend, available_tools, mcp_client,
                   exit_stack>>

\* Lines 104-119, 273-274 and 420-423: the catalog is fetched; its entries
\* are JSON values without a .name, so that the log line of a non-empty
\* catalog raises AttributeError after available_tools was set.
FetchCatalog ==
    /\ connect_pc = "catalog"
    /\ \E answer \in {"empty", "bad", "failed"} :
          /\ net_log' = Append(net_log, "GET /tools " \o Outcome(answer # "failed"))
          /\ CASE answer = "empty" ->
                    /\ available_tools' = "empty"
                    /\ connect_pc' = "done"
                    /\ UNCHANGED connect_error
               [] answer = "bad" ->
                    /\ available_tools' = "bad"
                    /\ Raise("AttributeError")
               [] OTHER ->
                    /\ Raise("Exception")
                    /\ UNCHANGED available_tools
    /\ ConnectFrame
    /\ UNCHANGED <<server_config, serving, backend, mcp_client, exit_stack>>

\* Lines 314-322 and 381-386: the server process is spawned.
Spawn ==
    /\ connect_pc = "spawn"
    /\ \E outcome \in {"ok", "FileNotFoundError", "Exception"} :
          /\ outcome = "ok" => which(Command)
          /\ net_log' = Append(net_log, "spawn " \o Command \o " " \o Outcome(outcome = "ok"))
          /\ IF outcome = "ok"
             THEN /\ exit_stack' = Stack(<<"transport">>)
                  /\ connect_pc' = "handshake"
                  /\ UNCHANGED connect_error
             ELSE /\ Raise(outcome)
                  /\ UNCHANGED exit_stack
    /\ ConnectFrame
    /\ UNCHANGED <<server_config, serving, backend, available_tools, mcp_client>>

\* Lines 325-329 and 388-392: the session is entered and initialized.
Handshake ==
    /\ connect_pc = "handshake"
    /\ exit_stack' = Stack(<<"transport", "session">>)
    /\ backend' = "stdio"
    /\ \E ok \in BOOLEAN :
          /\ net_log' = Append(net_log, "initialize " \o Outcome(ok))
          /\ IF ok THEN connect_pc' = "list_tools" /\ UNCHANGED connect_error
             ELSE Raise("Exception")
    /\ ConnectFrame
    /\ UNCHANGED <<server_config, serving, available_tools, mcp_client>>

\* Lines 331-333 and 394-398: the tools of the session are listed.
ListTools ==
    /\ connect_pc = "list_tools"
    /\ \E answer \in {"empty", "objects", "bad", "failed"} :
          /\ net_log' = Append(net_log, "list_tools " \o Outcome(answer # "failed"))
          /\ IF answer = "failed"
             THEN Raise("Exception") /\ UNCHANGED available_tools
             ELSE /\ available_tools' = answer
                  /\ connect_pc' = "done"
                  /\ UNCHANGED connect_error
    /\ ConnectFrame
    /\ UNCHANGED <<server_config, serving, backend, mcp_client, exit_stack>>

\* api.py, lines 58-64, and gateway.py, lines 93-99: Api.start returns,
\* having logged any exception, and the gateway goes on to serve messages.
Serve ==
    /\ connect_pc \in {"done", "raised", "no_client"}
    /\ ~serving
    /\ serving' = TRUE
    /\ ConnectFrame
    /\ UNCHANGED <<server_config, connect_pc, connect_error, net_log, backend,
                   available_tools, mcp_client, exit_stack>>

ConnectNext ==
    \/ LoadConfig
    \/ Connect
    \/ Probe
    \/ FetchCatalog
    \/ Spawn
    \/ Handshake
    \/ ListTools
    \/ Serve

ConnectSpec == ConnectInit /\ [][ConnectNext]_vars

\* ---------------------------------------------------- _format_tool_result
\* mcp_client.py, line 538: the content of a successful tool result is
\* turned into the text of the tool message.
FormatToolResult ==
    /\ format_pc = "idle"
    /\ tool_result' = _format_tool_result(content_list)
    /\ format_pc' = "done"
    /\ UNCHANGED <<content_list, queryVars, cleanupVars, searchVars, parseVars,
                   resultsVars, connectVars, toolVars, messageVars, sessionVars,
                   pairVars>>

FormatNext == FormatToolResult
FormatSpec == FormatInit /\ [][FormatNext]_vars

\* ------------------------------------------------------- search_internet
ToolFrame ==
    UNCHANGED <<queryVars, cleanupVars, searchVars, parseVars, resultsVars,
                connectVars, formatVars, messageVars, sessionVars, pairVars>>

\* Lines 101-114: an empty query raises ValueError, which line 125 turns into
\* the returned text; otherwise num is clamped and client.search is awaited.
SearchInternet ==
    /\ tool_pc = "idle"
    /\ IF tool_query = ""
       THEN /\ tool_pc' = "returned"
            /\ tool_return' = SearchErrorText(EmptyQueryError)
            /\ UNCHANGED <<tool_num, search_requests>>
       ELSE /\ tool_num' = Clamp(tool_num)
            /\ search_requests' = Append(search_requests,
                   [query_text |-> tool_query, groups_on_page |-> tool_num'])
            /\ tool_pc' = "searching"
            /\ UNCHANGED tool_return
    /\ UNCHANGED <<tool_query, tool_records>>
    /\ ToolFrame

\* Lines 111-123: search() returns its records (it never raises); they are
\* filtered with min_length=30 and the rendered text is returned.
SearchReturned ==
    /\ tool_pc = "searching"
    /\ \E records \in RecordLists :
          /\ tool_records' = records
          /\ tool_return' =
                format_results(optimize_results(records, tool_min_length, Inf),
                               tool_query)
    /\ tool_pc' = "returned"
    /\ UNCHANGED <<tool_query, tool_num, search_requests>>
    /\ ToolFrame

ToolNext ==
    \/ SearchInternet
    \/ SearchReturned
ToolSpec == ToolInit /\ [][ToolNext]_vars

\* ------------------------------------------------------- MessageProcessor
\* src/src/core/message_processor.py.
MessageFrame ==
    UNCHANGED <<queryVars, cleanupVars, searchVars, parseVars, resultsVars,
                connectVars, formatVars, toolVars, sessionVars, pairVars>>

\* Mutant: the per-client counter is left out.
UpdateStats_TotalOnly(st, client) ==
    [st EXCEPT !.total_messages = @ + 1]
\* Lines 54-55: total_messages and the counter of the client go up by one.
UpdateStats(st, client) ==
    [st EXCEPT !.total_messages = @ + 1,
               !.messages_by_client[client] = @ + 1]
\* Lines 66-71: the response built by the handler of process_message (`to`
\* records the type of the message it answers).
ErrorResponse(message) ==
    [message_id |-> message.id, kind |-> "error", to |-> message.message_type]
\* Lines 83-88: the response _generate_response builds.
Response(message) ==
    [message_id |-> message.id, kind |-> "response", to |-> message.message_type]

\* Lines 48-58: process_message is called, updates the statistics and awaits
\* _generate_response; other calls may run before it is resumed.
ProcessMessage ==
    /\ received < MaxMessages
    /\ \E client \in ClientType, type \in MessageType :
          /\ stats' = UpdateStats(stats, client)
          /\ in_process' = in_process \cup
                {[id |-> received + 1, client_type |-> client, message_type |-> type]}
    /\ received' = received + 1
    /\ UNCHANGED responses
    /\ MessageFrame

\* Lines 58-60 and 73-90: _generate_response returns the response of a
\* command or text message, which process_message returns.
ResponseGenerated ==
    /\ \E message \in in_process :
          /\ message.message_type \in {"command", "text"}
          /\ in_process' = in_process \ {message}
          /\ responses' = Append(responses, Response(message))
    /\ UNCHANGED <<stats, received>>
    /\ MessageFrame

\* Lines 62-71: _generate_response raised (for a message that is neither a
\* command nor a text, response_content is unbound at line 86; a command or
\* a text may raise in _get_status_text or in UnifiedResponse); errors goes
\* up by one and the error response is returned.
GenerationRaised ==
    /\ \E message \in in_process :
          /\ in_process' = in_process \ {message}
          /\ responses' = Append(responses, ErrorResponse(message))
    /\ stats' = [stats EXCEPT !.errors = @ + 1]
    /\ UNCHANGED received
    /\ MessageFrame

MessageNext ==
    \/ ProcessMessage
    \/ ResponseGenerated
    \/ GenerationRaised
MessageSpec == MessageInit /\ [][MessageNext]_vars

\* ------------------------------------- connect_to_server, called repeatedly
\* src/src/bots/main_bot/mcp_client.py.
SessionsFrame ==
    UNCHANGED <<queryVars, cleanupVars, searchVars, parseVars, resultsVars,
                connectVars, formatVars, toolVars, messageVars, pairVars>>

\* How far a connect_to_server call gets: the specification is rejected,
\* the client or session object is made but the handshake or the catalog
\* request raises, or the call returns.
ConnectOutcomes == {"rejected", "handshake_failed", "connected"}

\* Lines 260-274, an http specification: a missing host or port raises
\* before anything is assigned; otherwise self.mcp_client is assigned (line
\* 269) before initialize and list_tools are awaited.
ConnectHttp ==
    /\ connect_calls < MaxConnects
    /\ connect_calls' = connect_calls + 1
    /\ \E outcome \in ConnectOutcomes :
          /\ mcp_client_made_by' =
                (IF outcome = "rejected" THEN mcp_client_made_by
                 ELSE connect_calls')
          /\ last_connected' =
                (IF outcome = "connected" THEN connect_calls' ELSE last_connected)
    /\ UNCHANGED <<session_made_by, dispatches>>
    /\ SessionsFrame

\* Lines 276-333 and 335-389, an executable or lookup specification: a
\* missing executable or a failed spawn raises before anything is assigned;
\* otherwise self.session is assigned (lines 326, 375) before initialize and
\* list_tools are awaited.  self.mcp_client is not touched.
ConnectStdio ==
    /\ connect_calls < MaxConnects
    /\ connect_calls' = connect_calls + 1
    /\ \E outcome \in ConnectOutcomes :
          /\ session_made_by' =
                (IF outcome = "rejected" THEN session_made_by
                 ELSE connect_calls')
          /\ last_connected' =
                (IF outcome = "connected" THEN connect_calls' ELSE last_connected)
    /\ UNCHANGED <<mcp_client_made_by, dispatches>>
    /\ SessionsFrame

\* Lines 522-535: `if hasattr(self, "mcp_client")` sends the call to
\* self.mcp_client, else it goes to self.session (which raises when None).
DispatchTarget ==
    IF mcp_client_made_by # 0 THEN [kind |-> "http", made_by |-> mcp_client_made_by]
    ELSE IF session_made_by # 0 THEN [kind |-> "stdio", made_by |-> session_made_by]
    ELSE [kind |-> "none", made_by |-> 0]

\* Lines 522-535: process_query dispatches one tool call.
CallTool ==
    /\ Len(dispatches) < MaxDispatches
    /\ dispatches' = Append(dispatches,
          [target |-> DispatchTarget, connected |-> last_connected])
    /\ UNCHANGED <<connect_calls, session_made_by, mcp_client_made_by,
                   last_connected>>
    /\ SessionsFrame

SessionsNext ==
    \/ ConnectHttp
    \/ ConnectStdio
    \/ CallTool
SessionsSpec == SessionsInit /\ [][SessionsNext]_vars

\* ------------------------------------------- process_query, two at a time
\* src/src/bots/main_bot/mcp_client.py, lines 455-606, for two executions
\* that interleave at their awaits.  Every message and fragment records in
\* `of` the query whose request it was produced for.
PairFrame ==
    UNCHANGED <<queryVars, cleanupVars, searchVars, parseVars, resultsVars,
                connectVars, formatVars, toolVars, messageVars, sessionVars>>

\* Mutant: messages and final_text are attributes of the client.
FrameOf_Shared(q) == 1
\* Lines 456 and 463-466: final_text and messages are locals of the call, so
\* each execution has a frame of its own.
FrameOf(q) == q

\* Lines 463-466: the user message of a query.
PairUserMessage(q) == [role |-> "user", of |-> q, says |-> "query"]
\* What the endpoint replies to a payload: its reply is about the query of
\* the user message the payload carries (line 465).
AskedBy(payload) == payload[2].of
\* Lines 496-507: the assistant message of a reply that requests a tool.
PairAssistantMessage(payload) ==
    [role |-> "assistant", of |-> AskedBy(payload), says |-> "tool_calls"]
\* Lines 541-548 and 550-574: the tool message of a call, a result or an
\* error text.
PairToolMessage(request, outcome) ==
    [role |-> "tool", of |-> request.of, says |-> outcome]
\* Lines 489-494: the fragment appended for the content of a reply.
Fragment(payload, text) == [of |-> AskedBy(payload), says |-> text]

\* Lines 455-477: the locals are initialised and the first model call is
\* awaited.
StartQuery(q) ==
    /\ query_pc[q] = "idle"
    /\ frames' = [frames EXCEPT ![FrameOf(q)] =
          [messages |-> <<[role |-> "system", of |-> 0, says |-> "instructions"],
                          PairUserMessage(q)>>,
           final_text |-> <<>>]]
    /\ query_pc' = [query_pc EXCEPT ![q] = "await_llm"]
    /\ UNCHANGED <<turns, answers>>
    /\ PairFrame

\* Lines 478-494 and 576-579, 604-606: the reply to the payload of this
\* execution carries content and no tool call; the content is appended to
\* final_text and the last fragment is returned.
ModelAnswers(q) ==
    /\ query_pc[q] = "await_llm"
    /\ LET frame == frames[FrameOf(q)]
           ft == Append(frame.final_text, Fragment(frame.messages, "answer"))
       IN  /\ frames' = [frames EXCEPT ![FrameOf(q)].final_text = ft]
           /\ answers' = [answers EXCEPT ![q] = ft[Len(ft)]]
    /\ query_pc' = [query_pc EXCEPT ![q] = "done"]
    /\ UNCHANGED turns
    /\ PairFrame

\* Lines 478-535: the reply carries content and one tool call; the content
\* is appended to final_text, the assistant message to messages, and
\* call_tool is awaited.
ModelRequestsTool(q) ==
    /\ query_pc[q] = "await_llm"
    /\ turns[q] < MaxToolTurns
    /\ LET frame == frames[FrameOf(q)]
       IN  frames' = [frames EXCEPT ![FrameOf(q)] =
             [messages |-> Append(frame.messages, PairAssistantMessage(frame.messages)),
              final_text |-> Append(frame.final_text,
                                    Fragment(frame.messages, "content"))]]
    /\ query_pc' = [query_pc EXCEPT ![q] = "await_tool"]
    /\ UNCHANGED <<turns, answers>>
    /\ PairFrame

\* Lines 537-574: call_tool returns, times out or raises; the tool message
\* for the request is appended and the next model call is awaited.
ToolReturns(q) ==
    /\ query_pc[q] = "await_tool"
    /\ \E outcome \in {"result", "error"} :
          LET frame == frames[FrameOf(q)]
              request == frame.messages[Len(frame.messages)]
          IN  frames' = [frames EXCEPT ![FrameOf(q)].messages =
                Append(frame.messages, PairToolMessage(request, outcome))]
    /\ query_pc' = [query_pc EXCEPT ![q] = "await_llm"]
    /\ turns' = [turns EXCEPT ![q] = @ + 1]
    /\ UNCHANGED answers
    /\ PairFrame

PairNext ==
    \E q \in Queries :
        \/ StartQuery(q)
        \/ ModelAnswers(q)
        \/ ModelRequestsTool(q)
        \/ ToolReturns(q)
PairSpec == PairInit /\ [][PairNext]_vars

\* ================================================================ claims
Last(seq) == seq[Len(seq)]
AssistantPositions == {p \in 1..Len(messages) : messages[p].role = "assistant"}
\* The model turn (= model call number) whose reply is the message at p.
Turn(p) == Cardinality({q \in 1..p : messages[q].role = "assistant"})
\* Position of the last assistant message at or before q (0 when none).
RECURSIVE AssistantBefore(_)
AssistantBefore(q) ==
    IF q = 0 THEN 0
    ELSE IF messages[q].role = "assistant" THEN q
    ELSE AssistantBefore(q - 1)
\* Tool messages appended so far in the current turn.
AnsweredInTurn ==
    LET p == AssistantBefore(Len(messages))
    IN  IF p = 0 THEN 0 ELSE Len(messages) - p
MixedResult == _format_tool_result(<<OtherItem, TextItem("r1"), TextItem("r2")>>)

\* C1: for every model turn whose reply carries N tool_calls, the messages
\* appended after its assistant message are tool-role messages, the j-th one
\* carrying the id of the j-th request, never more than N of them, and
\* exactly N once a later model call has been made, whatever each call's
\* outcome was.
C1_ToolMessagesMatchRequests ==
    \A q \in 1..Len(messages) :
        /\ messages[q].role = "tool" =>
              LET p == AssistantBefore(q)
              IN  /\ p > 0
                  /\ q - p <= Len(messages[p].tool_calls)
                  /\ messages[q].tool_call_id = messages[p].tool_calls[q - p].id
        /\ (messages[q].role = "assistant" /\ llm_calls > Turn(q)) =>
              /\ q + Len(messages[q].tool_calls) <= Len(messages)
              /\ \A j \in 1..Len(messages[q].tool_calls) :
                    messages[q + j].role = "tool"
\* C1 witness: a turn of two calls, the first timed out and the second failed,
\* both answered in order before the next model call was made.
C1_Witness ==
    /\ pc = "await_llm"
    /\ \E p \in AssistantPositions :
          /\ Len(messages[p].tool_calls) = 2
          /\ llm_calls > Turn(p)
          /\ messages[p + 1].content = ToolTimeoutText(ToolName)
          /\ messages[p + 1].tool_call_id = messages[p].tool_calls[1].id
          /\ messages[p + 2].content = ToolErrorText(ToolName)
          /\ messages[p + 2].tool_call_id = messages[p].tool_calls[2].id

\* C2: the iteration counter i+1 stays within 1..max_iterations in every
\* reachable state, and the model call of iteration i+1 is the (i+1)-th model
\* call of the query, so the loop makes at most max_iterations of them.
C2_IterationBounded ==
    /\ i + 1 \in 1..max_iterations
    /\ pc \in {"await_llm", "tool_loop", "await_tool"} => llm_calls = i + 1
\* C2 witness: the model requested tools in every turn and the tenth model
\* call is being awaited.
C2_Witness ==
    /\ pc = "await_llm"
    /\ i + 1 = max_iterations
    /\ Cardinality(AssistantPositions) = max_iterations - 1

\* C3: whatever the model calls and the tool calls did, process_query
\* returns a string, and that string is non-empty.
C3_ReturnsNonEmptyString ==
    pc = "done" => IsStr(result) /\ Len(result[2]) > 0

\* The first model call returned a response without tool_calls.
FirstAnswerWithoutTools ==
    /\ i = 0
    /\ pc \notin {"idle", "loop_head", "await_llm"}
    /\ llm_response.isdict
    /\ Len(llm_response.tool_calls) = 0
\* C4 as stated: if the first model response carries no tool_calls, exactly
\* one model call is made, no tool is invoked, and the content of that
\* response is the answer returned.
C4_ContentIsTheAnswer ==
    FirstAnswerWithoutTools =>
        /\ pc = "done"
        /\ llm_calls = 1
        /\ tool_invocations = <<>>
        /\ result = llm_response.content
\* C4 amended: if the first model response carries no tool_calls, exactly one
\* model call is made, no tool is invoked, and the answer returned is the
\* content of that response when it is non-empty and the "empty response"
\* sentinel when it is empty or missing.
C4_SingleShotAnswer ==
    FirstAnswerWithoutTools =>
        /\ pc = "done"
        /\ llm_calls = 1
        /\ tool_invocations = <<>>
        /\ result = IF Truthy(llm_response.content) THEN llm_response.content
                    ELSE EmptyResponse
\* C4 witness: the query ended after one model call with the model's text.
C4_Witness ==
    /\ FirstAnswerWithoutTools
    /\ pc = "done"
    /\ llm_calls = 1
    /\ result = Text(1)

\* A model call of the main loop just ended in a timeout or a failure: the
\* wait_for timeout, a transport failure or a non-200 status reported by
\* _call_llm, or a reply that is no message object.
ModelCallFailed ==
    /\ pc = "await_llm"
    /\ pc' # "await_llm"
    /\ \/ Len(final_text') > 0 /\ Last(final_text') = LlmTimeoutText(i + 1)
       \/ ~llm_response'.isdict
       \/ llm_response'.content \in {LlmExceptionText, LlmStatusText}
\* C5: a timeout or failure of a model call of the main loop ends the query:
\* one diagnostic fragment is appended and returned, the loop is over, and
\* from then on no model call and no tool call is made.
C5_ModelFailureIsFatal ==
    [][/\ ModelCallFailed =>
            /\ pc' = "done"
            /\ Len(final_text') = Len(final_text) + 1
            /\ result' = Last(final_text')
            /\ messages' = messages
            /\ llm_calls' = llm_calls
            /\ tool_invocations' = tool_invocations
       /\ pc = "done" =>
            /\ pc' = "done"
            /\ llm_calls' = llm_calls
            /\ tool_invocations' = tool_invocations]_vars
\* C5 witness: the model call of a later iteration timed out after tools had
\* run, and the query ended with the timeout fragment.
C5_Witness ==
    /\ pc = "done"
    /\ i >= 1
    /\ Len(tool_invocations) >= 1
    /\ Len(final_text) > 0
    /\ Last(final_text) = LlmTimeoutText(i + 1)
    /\ llm_calls = i + 1

\* C6: the end of an awaited tool call, timeout and exception included, only
\* appends that call's tool-role message (the outcome text, keyed by its id)
\* and moves on to the next call of the turn: the transcript and the answer
\* are untouched and the query goes on; every well-formed remaining call is
\* handled in its turn, and after the last one the next model call follows
\* (the next iteration's below the cap, the wrap-up call at the cap).
C6_ToolFailureContained ==
    [][/\ (pc = "await_tool" /\ pc' # "await_tool") =>
            /\ pc' = "tool_loop"
            /\ k' = k + 1
            /\ Len(tool_results') = Len(tool_results) + 1
            /\ messages' = Append(messages,
                  Msg("tool", Last(tool_results'), <<>>, tool_calls[k].id))
            /\ final_text' = final_text
            /\ result' = result
       /\ (InToolLoop /\ CurrentCall.wf) => pc' \in {"tool_loop", "await_tool"}
       /\ (pc = "tool_loop" /\ k > Len(tool_calls)) =>
            /\ pc' \in {"loop_head", "await_final"}
            /\ i + 1 < max_iterations => (pc' = "loop_head" /\ i' = i + 1)]_vars
\* C6 witness: in one turn the first tool call timed out, the second was
\* still invoked and succeeded, and the next model call was started.
C6_Witness ==
    /\ pc = "await_llm"
    /\ \E p \in AssistantPositions :
          /\ Len(messages[p].tool_calls) = 2
          /\ messages[p + 1].content = ToolTimeoutText(ToolName)
          /\ messages[p + 2].content = MixedResult
          /\ \E n \in 1..Len(tool_invocations) :
                /\ tool_invocations[n].iteration = Turn(p)
                /\ tool_invocations[n].position = 2

Fragments == {final_text[f] : f \in 1..Len(final_text)}
\* C7 as stated: the answer returned is the last fragment of the transcript,
\* every fragment is non-empty, and with no fragment the sentinel is returned.
C7_AnswerIsLastFragment ==
    pc = "done" =>
        /\ \A f \in Fragments : Truthy(f)
        /\ Len(final_text) > 0 => result = final_text[Len(final_text)]
        /\ Len(final_text) = 0 => result = EmptyResponse
\* C7 amended: when the system message and the tool list could be built, the
\* answer returned is the last fragment of the transcript (one fragment, not
\* several joined), every fragment is non-empty, and with no fragment the
\* sentinel is returned; when building them fails, no fragment is accumulated
\* and the critical-error text is returned instead.
C7_AnswerSelection ==
    pc = "done" =>
        /\ \A f \in Fragments : Truthy(f)
        /\ IF available_tools = "bad"
           THEN Len(final_text) = 0 /\ result = CriticalError
           ELSE /\ Len(final_text) > 0 => result = final_text[Len(final_text)]
                /\ Len(final_text) = 0 => result = EmptyResponse
\* C7 witness: several fragments were accumulated and the last one, different
\* from the first, was returned.
C7_Witness ==
    /\ pc = "done"
    /\ Len(final_text) >= 3
    /\ result = final_text[Len(final_text)]
    /\ result # final_text[1]

\* Number of call_tool invocations made in iteration it.
InvokedInTurn(it) ==
    Cardinality({n \in 1..Len(tool_invocations) : tool_invocations[n].iteration = it})
C9_StrictlySequential ==
    /\ llm_in_flight + Cardinality(tool_in_flight) <= 1
    /\ llm_in_flight > 0 <=> pc \in {"await_llm", "await_final"}
    /\ tool_in_flight # {} <=> pc = "await_tool"
    /\ tool_in_flight # {} => (tool_in_flight = {k} /\ AnsweredInTurn = k - 1)
\* C9 witness: the second tool call of a turn is awaited, the first one's
\* message being appended.
C9_Witness ==
    /\ pc = "await_tool"
    /\ tool_in_flight = {2}
    /\ AnsweredInTurn = 1
    /\ llm_in_flight = 0

\* The well-formed tool-call requests of the conversation, as <<p, j>>: the
\* j-th tool call of the assistant message at p.
ToolRequests ==
    {r \in UNION {{<<p, j>> : j \in 1..Len(messages[p].tool_calls)} :
                    p \in AssistantPositions} :
        messages[r[1]].tool_calls[r[2]].wf}
RequestId(r) == messages[r[1]].tool_calls[r[2]].id
ToolMessagesWith(id) ==
    {q \in 1..Len(messages) : messages[q].role = "tool" /\ messages[q].tool_call_id = id}
\* C10: over the whole conversation of a query, in either dialect, every
\* requested tool-call id belongs to one request only and is answered by at
\* most one tool-role message, exactly one once a later model call was made.
C10_IdsCorrelate ==
    \A r \in ToolRequests :
        /\ Cardinality({x \in ToolRequests : RequestId(x) = RequestId(r)}) = 1
        /\ Cardinality(ToolMessagesWith(RequestId(r))) <= 1
        /\ llm_calls > Turn(r[1]) => Cardinality(ToolMessagesWith(RequestId(r))) = 1

\* ------------------------------------------------------------ cleanup claims
\* The resources whose release cleanup call c attempted, in order.
ReleasedIn(c) ==
    LET sel == SelectSeq(releases, LAMBDA r : r.call = c)
    IN  [j \in 1..Len(sel) |-> sel[j].res]
SomeReleaseFailed(c) == \E j \in 1..Len(releases) :
                            releases[j].call = c /\ ~releases[j].ok

\* C11: calling cleanup twice in succession never raises on either call, for
\* every connection state (never connected, HTTP backend, subprocess session)
\* and whichever close steps fail.
C11_CleanupNeverRaises == ~cleanup_raised /\ cleanup_pc # "raised"
\* C11 witness: the second cleanup of a subprocess session has returned, a
\* close step of the first call having failed.
C11_Witness ==
    /\ cleanup_calls = 2
    /\ cleanup_pc = "idle"
    /\ backend = "stdio"
    /\ SomeReleaseFailed(1)
    /\ exit_stack = None

\* Place of a resource in the order the specification states.
StatedRank(res) ==
    CASE res = "session" -> 1
      [] res \in {"http_client", "mcp_client"} -> 2
      [] OTHER -> 3
\* C12 (as stated): within one cleanup call the tool session is released
\* first, then the HTTP client, then the transport/process handles.
C12_SessionThenHttpThenTransport ==
    \A c \in 1..MaxCleanups :
        LET rs == ReleasedIn(c)
        IN  \A a, b \in 1..Len(rs) : a < b => StatedRank(rs[a]) <= StatedRank(rs[b])
\* The order of the close steps of cleanup call c.
CleanupOrder(c) ==
    <<"http_client">>
    \o (IF backend = "http" THEN <<"mcp_client">> ELSE <<>>)
    \o (IF c > 1 THEN <<"exit_stack">>
        ELSE IF backend = "stdio" THEN <<"session", "transport">> ELSE <<>>)
\* C12 (amended): cleanup releases the client of the LLM endpoint first, then
\* the HTTP tool client when there is one, then the exit stack, which exits
\* the tool session and then the transport; every step is attempted whatever
\* the outcome of the earlier ones.
C12_CleanupOrder ==
    /\ \A c \in 1..cleanup_calls : ReleasedIn(c) = CleanupOrder(c)
    /\ \A c \in 1..MaxCleanups :
          LET rs == ReleasedIn(c)
          IN  /\ Len(rs) <= Len(CleanupOrder(c))
              /\ rs = SubSeq(CleanupOrder(c), 1, Len(rs))
\* C12 witness: the first close step of a cleanup of a subprocess session
\* failed and the session and the transport were released after it.
C12_Witness ==
    /\ cleanup_calls >= 1
    /\ backend = "stdio"
    /\ ~releases[1].ok
    /\ ReleasedIn(1) = <<"http_client", "session", "transport">>

\* ------------------------------------------------------------- search claims
PagesSubmitted == [j \in 1..Len(submissions) |-> submissions[j].page]
OpsPolled == [j \in 1..Len(polls) |-> polls[j].op]
\* The ids of the operations of the submissions answered 200, in order.
RECURSIVE AcceptedFrom(_)
AcceptedFrom(j) ==
    IF j > Len(submissions) THEN <<>>
    ELSE (IF submissions[j].status = "200" THEN <<OpId(j)>> ELSE <<>>)
         \o AcceptedFrom(j + 1)
\* The poll sequence j ran out of attempts without the operation being done.
Exhausted(j) ==
    /\ polls[j].requests = max_attempts
    /\ polls[j].sleeps = max_attempts
    /\ ~polls[j].done
\* Nothing raised during the search: no submission, no status request, no
\* decoding of a payload.
NothingRaised ==
    /\ \A j \in 1..Len(submissions) : submissions[j].status # "raised"
    /\ \A j \in 1..Len(polls) :
          /\ polls[j].status # "none" \/ polls[j].requests = 0
          /\ polls[j].done => polls[j].decoded = 1

\* C13: search() with a page list of n pages issues exactly n submission
\* calls, one per page in list order, and for each accepted operation runs
\* one poll sequence of at most 10 status requests that yields at most one
\* decoded payload.
C13_OneSubmissionPerPage ==
    search_pc = "done" =>
        /\ PagesSubmitted = pages_to_fetch
        /\ OpsPolled = operations
        /\ \A j \in 1..Len(polls) :
              polls[j].requests <= max_attempts /\ polls[j].decoded <= 1
        /\ Len(xml_results) <= Len(operations)

\* C14: polling of an operation stops at the first attempt that reports it
\* done, and its payload is decoded (a payload that cannot be decoded ends
\* the search); after every attempt that answers without reporting done,
\* with status 200 or not, exactly one sleep occurs and the attempt counter
\* goes up by one (after which the operation is given up at 10).
C14_DoneIsNeverPolledAgain ==
    \A j \in 1..Len(polls) :
        polls[j].done =>
            /\ ~(search_pc = "poll" /\ j = Len(polls))
            /\ polls[j].decoded = 1 \/ (aborted /\ j = Len(polls))
            /\ polls[j].sleeps = polls[j].requests - 1
C14_NotDoneAttempt ==
    LET n == Len(polls)
    IN  (/\ search_pc = "poll"
         /\ polls'[n].requests = polls[n].requests + 1
         /\ polls'[n].status \in {"200", "non200"}
         /\ ~polls'[n].done)
        => /\ polls'[n].sleeps = polls[n].sleeps + 1
           /\ polls'[n].requests = attempts + 1
           /\ \/ attempts' = attempts + 1 /\ op_idx' = op_idx /\ search_pc' = "poll"
              \/ attempts + 1 = max_attempts /\ op_idx' = op_idx + 1
C14_PollLoop == []C14_DoneIsNeverPolledAgain /\ [][C14_NotDoneAttempt]_vars
\* C14 witness: an operation was reported done at its fourth status request,
\* after a non-200 answer among the earlier ones, and was decoded.
C14_Witness ==
    /\ Len(polls) >= 1
    /\ polls[1].done
    /\ polls[1].requests = 4
    /\ polls[1].sleeps = 3
    /\ polls[1].decoded = 1
    /\ Len(xml_results) >= 1

\* C15: an operation that is never reported done within its 10 poll attempts
\* yields no payload and does not fail the batch: polling proceeds to the
\* next operation, and the records of the operations that did complete are
\* returned.
C15_GivingUp ==
    (/\ search_pc = "poll"
     /\ attempts = max_attempts - 1
     /\ polls'[Len(polls)].requests = max_attempts
     /\ polls'[Len(polls)].status \in {"200", "non200"}
     /\ ~polls'[Len(polls)].done)
    => /\ xml_results' = xml_results
       /\ aborted' = aborted
       /\ IF op_idx < Len(operations)
          THEN /\ search_pc' = "poll"
               /\ op_idx' = op_idx + 1
               /\ attempts' = 0
          ELSE /\ search_pc' = "done"
               /\ search_result' = ParseAll(xml_results)
C15_NoPayloadWhenGivenUp ==
    /\ \A j \in 1..Len(polls) : Exhausted(j) => polls[j].decoded = 0
    /\ (search_pc = "done" /\ NothingRaised) =>
          /\ ~aborted
          /\ Len(xml_results) = Cardinality({j \in 1..Len(polls) : polls[j].done})
          /\ search_result = ParseAll(xml_results)
C15_ExhaustedOperationIsDropped ==
    []C15_NoPayloadWhenGivenUp /\ [][C15_GivingUp]_vars
\* C15 witness: the first operation was given up after 10 attempts, the
\* second one completed, and its record was returned.
C15_Witness ==
    /\ search_pc = "done"
    /\ Len(polls) = 2
    /\ Exhausted(1)
    /\ polls[2].done
    /\ Len(search_result) = 1
    /\ search_result[1].url = PageDoc(pages_to_fetch[2]).url

\* C16: a page whose submission returns a non-200 status is skipped and the
\* remaining pages are still submitted; the operations polled afterwards are
\* exactly those of the pages that returned 200, in page-list order.
C16_RejectedPageIsSkipped ==
    /\ Len(submissions) <= Len(pages_to_fetch)
    /\ PagesSubmitted = SubSeq(pages_to_fetch, 1, Len(submissions))
    /\ operations = AcceptedFrom(1)
    /\ (search_pc = "submit" /\ Len(submissions) > 0) =>
          /\ submissions[Len(submissions)].status \in {"200", "non200"}
          /\ page_idx = Len(submissions) + 1
    /\ (search_pc = "poll" \/ (search_pc = "done" /\ ~aborted)) =>
          /\ PagesSubmitted = pages_to_fetch
          /\ OpsPolled = SubSeq(operations, 1, Len(polls))
    /\ (search_pc = "done" /\ ~aborted) => OpsPolled = operations
\* C16 witness: the first of two pages was answered non-200, the second was
\* accepted and polled, and its record was returned.
C16_Witness ==
    /\ search_pc = "done"
    /\ Len(submissions) = 2
    /\ submissions[1].status = "non200"
    /\ submissions[2].status = "200"
    /\ OpsPolled = <<OpId(2)>>
    /\ Len(search_result) = 1

\* C17: a failure confined to one page or operation (a transport exception
\* while submitting or polling it, a done operation whose payload is missing
\* or cannot be decoded) never aborts the batch: the records parsed from the
\* other pages are still returned.
C17_FailureIsIsolated ==
    search_pc = "done" => search_result = ParseAll(xml_results)

\* ------------------------------------------------------------- parser claims
\* The records search() owes for the decoded payloads: the record of the
\* page document for a well-formed payload, nothing for a malformed one.
RECURSIVE RecordsOwed(_)
RecordsOwed(xmls) ==
    IF xmls = <<>> THEN <<>>
    ELSE (IF Head(xmls).wellformed
          THEN [j \in 1..Len(Head(xmls).docs) |-> Record(Head(xmls).docs[j])]
          ELSE <<>>)
         \o RecordsOwed(Tail(xmls))
\* C18: parsing a malformed payload returns an empty list and never raises;
\* inside search(), a malformed payload contributes no records while the
\* records of the other payloads are kept.
C18_MalformedPayloadIsEmpty ==
    /\ ~ParseRaises(MalformedXml)
    /\ _parse_search_results(MalformedXml) = <<>>
    /\ (search_pc = "done" /\ NothingRaised) =>
          /\ ~aborted
          /\ search_result = RecordsOwed(xml_results)
\* C18 witness: a search decoded a malformed payload and a well-formed one
\* and returned the one record of the latter.
C18_Witness ==
    /\ search_pc = "done"
    /\ Len(xml_results) = 2
    /\ ~xml_results[1].wellformed
    /\ xml_results[2].wellformed
    /\ search_result = <<Record(PageDoc(pages_to_fetch[2]))>>

\* The documents of the parsed payload whose extraction does not raise.
Extractable == SelectSeq(xml_content.docs, LAMBDA d : ~d.broken)
\* C19: a document whose extraction raises is skipped, and every other
\* document of the payload still produces exactly one record, in document
\* order.
C19_BrokenDocumentIsSkipped ==
    (parse_pc # "idle" /\ xml_content.wellformed) =>
        /\ parse_pc = "returned"
        /\ Len(parsed_results) = Len(Extractable)
        /\ \A j \in 1..Len(Extractable) :
              /\ parsed_results[j].headline
                    = _clean_text(Strip(Extractable[j].headline))
              /\ parsed_results[j].content = Content(Extractable[j])
              /\ parsed_results[j].url = Extractable[j].url
\* C19 witness: the first of two documents raised, the second one has a
\* headline, and the one record returned is that of the second.
C19_Witness ==
    /\ parse_pc = "returned"
    /\ Len(xml_content.docs) = 2
    /\ xml_content.docs[1].broken
    /\ ~xml_content.docs[2].broken
    /\ xml_content.docs[1].headline = <<>>
    /\ xml_content.docs[2].headline # <<>>
    /\ Len(parsed_results) = 1
    /\ parsed_results[1].headline = <<"h">>

\* The sources of a document's content, as they stand in the payload.
ExtendedTextOf(d) ==
    IF d.properties = None THEN None
    ELSE Find(d.properties, "extended-text")
PassageTexts(d) == SelectSeq([j \in 1..Len(d.passages) |-> Strip(d.passages[j])],
                             LAMBDA t : t # <<>>)
HeadlineOf(d) == _clean_text(Strip(d.headline))
\* C20 (as stated): the content is the extended-text property if present,
\* else the concatenation of the passage fragments if any exist, else the
\* headline; a lower-priority source is used only when every
\* higher-priority source is absent.
C20_PriorityByPresence ==
    parse_pc = "returned" =>
        \A j \in 1..Len(Extractable) :
            LET d == Extractable[j]
            IN  parsed_results[j].content =
                    IF ExtendedTextOf(d) # None
                    THEN _clean_text(Strip(ExtendedTextOf(d)[2]))
                    ELSE IF d.passages # <<>>
                    THEN _clean_text(JoinBlank(PassageTexts(d)))
                    ELSE HeadlineOf(d)
\* C20 (amended): the content is the extended text if it is present and not
\* empty, else the concatenation of the non-empty passage fragments if
\* there is one, else the headline, each cleaned of markup; a lower-priority
\* source is used only when every higher-priority source is absent or empty.
C20_PriorityByNonEmptiness ==
    parse_pc = "returned" =>
        \A j \in 1..Len(Extractable) :
            LET d == Extractable[j]
                ext == IF ExtendedTextOf(d) = None THEN <<>>
                       ELSE Strip(ExtendedTextOf(d)[2])
            IN  parsed_results[j].content =
                    IF ext # <<>> THEN _clean_text(ext)
                    ELSE IF PassageTexts(d) # <<>>
                    THEN _clean_text(JoinBlank(PassageTexts(d)))
                    ELSE HeadlineOf(d)
\* C20 witness: a document with an empty extended text, passages and a
\* headline got the passages as its content.
C20_Witness ==
    /\ parse_pc = "returned"
    /\ Len(Extractable) = 1
    /\ ExtendedTextOf(Extractable[1]) = Element(<<>>)
    /\ HeadlineOf(Extractable[1]) = <<"h">>
    /\ parsed_results[1].content = <<"p1", " ", "p2">>

\* ------------------------------------------------------------ results claims
\* The positions of results that optimize_results has to keep.
Kept ==
    {j \in 1..Len(results) :
        /\ results[j].content # <<>>
        /\ Len(results[j].content) > min_length
        /\ (max_length = Inf \/ Len(results[j].content) < max_length[2])}
\* The n-th kept position, counted from 1.
NthKept(n) == CHOOSE j \in Kept : Cardinality({h \in Kept : h <= j}) = n

\* C21: optimize_results returns exactly the records with a non-empty content
\* whose length lies strictly between min_length and max_length, in input
\* order and unchanged; with min_length = 30 and no max_length every record
\* of content length <= 30 is dropped and every other record is kept, and a
\* kept record never has an empty content.
C21_OptimizeKeepsOpenInterval ==
    results_pc # "idle" =>
        /\ Len(optimized_results) = Cardinality(Kept)
        /\ \A n \in 1..Len(optimized_results) :
              /\ optimized_results[n] = results[NthKept(n)]
              /\ optimized_results[n].content # <<>>
        /\ (min_length = 30 /\ max_length = Inf) =>
              \A j \in 1..Len(results) :
                 (Len(results[j].content) > 30)
                    <=> (\E n \in 1..Len(optimized_results) :
                            optimized_results[n] = results[j])
C21_Witness ==
    /\ results_pc = "optimized"
    /\ min_length = 30
    /\ max_length = Inf
    /\ Len(results) = 3
    /\ Len(results[1].content) = 30
    /\ Len(results[2].content) = 0
    /\ Len(results[3].content) = 31
    /\ optimized_results = <<results[3]>>

\* C22: format_results returns the "nothing found" sentinel of the query for
\* an empty list, and otherwise the header and one block per record, the
\* blocks numbered 1..n in input order.
C22_FormatEnumerates ==
    results_pc = "formatted" =>
        IF optimized_results = <<>>
        THEN formatted = <<[kind |-> "nothing_found", query |-> "q"]>>
        ELSE /\ Len(formatted) = Len(optimized_results) + 1
             /\ formatted[1].kind = "header"
             /\ \A j \in 1..Len(optimized_results) :
                   /\ formatted[j + 1].kind = "block"
                   /\ formatted[j + 1].number = j
                   /\ formatted[j + 1].item = optimized_results[j]
C22_Witness ==
    /\ results_pc = "formatted"
    /\ Len(optimized_results) = 3
    /\ Len(formatted) = 4
    /\ formatted[4].number = 3

\* ------------------------------------------------------------ gateway claims
\* The content-only responses _call_llm builds for a failed request.
Diagnostics == {ContentOnly(LlmStatusText), ContentOnly(LlmExceptionText)}

C29_BadArgumentsDoNotAbort ==
    /\ [](pc \in {"tool_loop", "await_tool"} =>
            \A p \in 1..Len(tool_calls) :
               (p < k /\ tool_calls[p].wf /\ tool_calls[p].arguments = "bad") =>
                  /\ \A n \in 1..Len(tool_invocations) :
                        ~(/\ tool_invocations[n].iteration = i + 1
                          /\ tool_invocations[n].position = p)
                  /\ messages[AssistantBefore(Len(messages)) + p]
                        = ToolMessage(tool_calls[p].id,
                                      ToolErrorText(tool_calls[p].name)))
    /\ [][(InToolLoop /\ CurrentCall.wf /\ CurrentCall.arguments = "bad") =>
             /\ messages' = Append(messages,
                   ToolMessage(CurrentCall.id, ToolErrorText(CurrentCall.name)))
             /\ tool_invocations' = tool_invocations
             /\ k' = k + 1
             /\ pc' = "tool_loop"
             /\ tool_calls' = tool_calls]_vars
C29_Witness ==
    /\ pc = "tool_loop"
    /\ Len(tool_calls) = 2
    /\ k = 3
    /\ tool_calls[1].arguments = "bad"
    /\ tool_calls[2].arguments = "json"
    /\ backend # "none"
    /\ Len(tool_invocations) = 1
    /\ tool_invocations[1].position = 2
    /\ Last(messages).tool_call_id = tool_calls[2].id

\* ------------------------------------------------------ conversation claims
\* C30: the conversation starts as [system, user]; every later change
\* appends one message, an assistant message carrying tool_calls or a
\* tool-role message, and leaves the messages before it as they were; the
\* payload of a model call in flight carries every message of the
\* conversation, in order.
C30_ConversationIsAppendOnly ==
    /\ [](llm_in_flight > 0 =>
            IF dialect = "openai" THEN llm_request.messages = messages
            ELSE /\ Len(llm_request.prompt) = Len(messages) + 1
                 /\ \A j \in 1..Len(messages) :
                       llm_request.prompt[j][2] = messages[j].content
                 /\ Last(llm_request.prompt) = <<"### Assistant:">>)
    /\ [][\/ messages' = messages
          \/ /\ pc = "idle"
             /\ messages' = <<SystemMessage, UserMessage>>
          \/ /\ Len(messages) >= 2
             /\ Len(messages') = Len(messages) + 1
             /\ SubSeq(messages', 1, Len(messages)) = messages
             /\ \/ /\ Last(messages').role = "assistant"
                   /\ Last(messages').tool_calls # <<>>
                \/ Last(messages').role = "tool"]_vars
C30_Witness ==
    /\ llm_in_flight = 1
    /\ llm_calls = 2
    /\ Len(messages) = 5
    /\ messages[3].role = "assistant"
    /\ messages[4].role = "tool"
    /\ messages[5].role = "tool"

\* ------------------------------------------------------------ connect claims
\* connect_to_server has not been entered, or has raised.
NotConnecting == connect_pc \in {"unloaded", "loaded", "no_client", "raised"}
\* The client as MCPClient.__init__ left it: no session, no HTTP tool client,
\* nothing on the exit stack, an empty catalog.
Untouched ==
    /\ backend = "none"
    /\ mcp_client = "absent"
    /\ exit_stack = Stack(<<>>)
    /\ available_tools = "empty"
Has(entry) == \E n \in 1..Len(net_log) : net_log[n] = entry

\* C24: an http specification without host or without port, and a lookup
\* specification without name, end connect_to_server with ValueError before
\* any request or spawn, the client left without session and with the
\* catalog it had.
C24_ValidatedBeforeUse ==
    (\/ /\ server_config.connect_type = "http"
        /\ (server_config.host = "" \/ server_config.port = 0)
     \/ /\ server_config.connect_type = "mcp_lookup"
        /\ server_config.name = "")
    => /\ NotConnecting
       /\ connect_pc = "raised" => connect_error = "ValueError"
       /\ net_log = <<>>
       /\ Untouched
C24_Witness ==
    /\ server_config.connect_type = "http"
    /\ server_config.host = "h"
    /\ server_config.port = 0
    /\ connect_pc = "raised"
    /\ connect_error = "ValueError"
    /\ net_log = <<>>

\* C25: over HTTP the catalog is requested only after a status probe that
\* answered 200; a probe that fails ends connect_to_server with an
\* Exception, the catalog is not requested and available_tools stays as it
\* was.
C25_ProbeBeforeCatalog ==
    server_config.connect_type = "http" =>
        /\ \A n \in 1..Len(net_log) :
              (net_log[n] \in {"GET /tools ok", "GET /tools failed"}) =>
                 (n = 2 /\ net_log[1] = "GET /status ok")
        /\ Has("GET /status failed") =>
              /\ net_log = <<"GET /status failed">>
              /\ connect_pc = "raised"
              /\ connect_error = "Exception"
              /\ available_tools = "empty"
C25_Witness ==
    /\ server_config.connect_type = "http"
    /\ net_log = <<"GET /status failed">>
    /\ connect_pc = "raised"

\* C26: the gateway accepts messages only after the configuration was loaded
\* and connect_to_server returned.
C26_StartupFailureIsFatal == serving => connect_pc = "done"

\* The candidate names find_python_executable probes, in order.
Candidates == <<"python3", "python", "python3.10", "python3.11", "python3.12",
                "python3.13">>

\* C27: with no executable given, the executable becomes the first candidate
\* found on the search path, else the running interpreter, else "python3";
\* an executable that is not on the search path ends connect_to_server with
\* FileNotFoundError and nothing spawned.
C27_InterpreterResolution ==
    /\ []((/\ server_config.connect_type = "executable"
           /\ ~NotConnecting) => server_config.executable \in on_path)
    /\ []((/\ server_config.connect_type = "executable"
           /\ connect_pc = "raised"
           /\ server_config.executable \notin on_path)
          => /\ connect_error = "FileNotFoundError"
             /\ net_log = <<>>
             /\ exit_stack = Stack(<<>>))
    /\ [][(/\ connect_pc = "loaded"
           /\ server_config.connect_type = "executable"
           /\ server_config.executable = "")
          => LET chosen == server_config'.executable
                 none == \A j \in 1..Len(Candidates) : Candidates[j] \notin on_path
             IN  /\ \A j \in 1..Len(Candidates) :
                       (/\ Candidates[j] \in on_path
                        /\ \A h \in 1..(j - 1) : Candidates[h] \notin on_path)
                       => chosen = Candidates[j]
                 /\ (none /\ sys_executable # "") => chosen = sys_executable
                 /\ (none /\ sys_executable = "") => chosen = "python3"
                 /\ connect_pc' = (IF chosen \in on_path THEN "spawn" ELSE "raised")]_vars
C27_Witness ==
    /\ server_config.connect_type = "executable"
    /\ on_path = {"python3.13", "python3.11"}
    /\ server_config.executable = "python3.11"
    /\ net_log = <<"spawn python3.11 ok">>

\* C28: a lookup by name ends with ValueError when the registry has no entry
\* of that name and when the spawn, the handshake or the listing fails; it
\* returns only after the entry's process was spawned, the session
\* initialized and the catalog listed.
C28_LookupFailsWithValueError ==
    (server_config.connect_type = "mcp_lookup" /\ server_config.name # "") =>
        /\ connect_pc = "raised" => connect_error = "ValueError"
        /\ registry # "with_name" => (NotConnecting /\ net_log = <<>>)
        /\ (\E n \in 1..Len(net_log) :
               net_log[n] \in {"spawn " \o Command \o " failed",
                               "initialize failed", "list_tools failed"})
              => connect_pc = "raised"
        /\ connect_pc = "done" =>
              /\ registry = "with_name"
              /\ net_log = <<"spawn " \o Command \o " ok", "initialize ok",
                             "list_tools ok">>
              /\ backend = "stdio"
C28_Witness ==
    /\ server_config.connect_type = "mcp_lookup"
    /\ registry = "with_name"
    /\ net_log = <<"spawn node ok", "initialize failed">>
    /\ connect_pc = "raised"
    /\ connect_error = "ValueError"

\* ------------------------------------------- search protocol and defaults
\* The position in the page list of the page a record was found for.
PositionOf(record) ==
    CHOOSE j \in 1..Len(pages_to_fetch) :
        record.url = PageDoc(pages_to_fetch[j]).url
\* The number of poll sequences that decoded a payload.
PayloadsDecoded == Cardinality({j \in 1..Len(polls) : polls[j].decoded = 1})
C36_DefaultPagesNeverMutated ==
    /\ default_pages = <<0>>
    /\ uses_default =>
          /\ pages_to_fetch = <<0>>
          /\ submissions # <<>> => PagesSubmitted = <<0>>
          /\ (search_pc \in {"poll", "done"} /\ ~aborted) => PagesSubmitted = <<0>>
\* C36 witness: the second call on the client, made without a page list
\* after a call that used the default too, has submitted page 0.
C36_Witness ==
    /\ search_calls = 2
    /\ uses_default
    /\ search_pc = "done"
    /\ PagesSubmitted = <<0>>
    /\ Len(search_result) = 1

\* C37: search() never raises: once a submission, a status request or the
\* decoding of a payload has raised, the call is over and has returned an
\* empty list, whatever had been decoded before.
C37_SearchNeverRaises ==
    /\ search_pc \in {"idle", "submit", "poll", "done"}
    /\ ~NothingRaised => search_pc = "done" /\ search_result = <<>>
    /\ aborted => ~NothingRaised
\* C37 witness: the first operation delivered a well-formed payload, the
\* status request for the second raised, and the call returned [].
C37_Witness ==
    /\ search_pc = "done"
    /\ Len(polls) = 2
    /\ polls[1].decoded = 1
    /\ xml_results # <<>> /\ xml_results[1].wellformed
    /\ polls[2].status = "none" /\ polls[2].requests > 0
    /\ search_result = <<>>

\* ------------------------------------------------------ tool result text
\* The texts of the items that expose text, in the order of the list.
RECURSIVE TextsOf(_)
TextsOf(items) ==
    IF items = <<>> THEN <<>>
    ELSE (IF Head(items).has_text THEN <<Head(items).text>> ELSE <<>>)
         \o TextsOf(Tail(items))
\* C39: a successful tool result is flattened to a string that consists of
\* the texts of exactly the content items that expose text, in their
\* original order, with one newline between two consecutive texts; items
\* without text are dropped, and a result with no text-bearing item becomes
\* the empty string.
C39_TextItemsJoinedByNewlines ==
    format_pc = "done" =>
        LET texts == TextsOf(content_list)
            out == tool_result[2]
        IN  /\ IsStr(tool_result)
            /\ Len(out) = (IF texts = <<>> THEN 0 ELSE 2 * Len(texts) - 1)
            /\ \A j \in 1..Len(texts) : out[2 * j - 1] = texts[j]
            /\ \A j \in 1..(Len(texts) - 1) : out[2 * j] = "\n"
            /\ (\A j \in 1..Len(content_list) : ~content_list[j].has_text)
                  => tool_result = Str(<<>>)
\* C39 witness: an image between two text items was dropped and the two
\* texts were joined by a newline.
C39_Witness ==
    /\ format_pc = "done"
    /\ content_list = <<TextItem("a"), OtherItem, TextItem("b")>>
    /\ tool_result = Str(<<"a", "\n", "b">>)

\* ---------------------------------------------------- search_internet tool
\* The records of a list whose content is longer than 30 characters.
RECURSIVE LongerThan30(_)
LongerThan30(records) ==
    IF records = <<>> THEN <<>>
    ELSE (IF Len(Head(records).content) > 30 THEN <<Head(records)>> ELSE <<>>)
         \o LongerThan30(Tail(records))
\* C38: the search_internet tool never raises and always returns text: an
\* empty query returns an error text without any search being issued;
\* otherwise exactly one search is issued, for the query and with num clamped
\* into 1..10, its records are filtered with min_length=30, and the block of
\* the records kept, or the 'nothing found' sentinel when none is kept, is
\* returned.
C38_SearchInternetAlwaysReturnsText ==
    /\ tool_pc \in {"idle", "searching", "returned"}
    /\ tool_pc = "returned" => tool_return # <<>>
    /\ tool_query = "" =>
          /\ search_requests = <<>>
          /\ tool_pc = "returned" => tool_return[1].kind = "error"
    /\ (tool_query # "" /\ tool_pc # "idle") =>
          /\ Len(search_requests) = 1
          /\ search_requests[1].query_text = tool_query
          /\ search_requests[1].groups_on_page \in 1..10
          /\ search_requests[1].groups_on_page = tool_num
    /\ (tool_query # "" /\ tool_pc = "returned") =>
          LET kept == LongerThan30(tool_records)
          IN  IF kept = <<>>
              THEN tool_return = <<[kind |-> "nothing_found", query |-> tool_query]>>
              ELSE /\ Len(tool_return) = Len(kept) + 1
                   /\ tool_return[1] = [kind |-> "header", query |-> tool_query]
                   /\ \A j \in 1..Len(kept) :
                         tool_return[j + 1] =
                             [kind |-> "block", number |-> j, item |-> kept[j]]
\* How the num of a call is passed on: below 1 as 1, above 10 as 10.
C38_Clamped ==
    [][tool_pc = "idle" /\ tool_pc' = "searching" =>
          search_requests'[1].groups_on_page =
              (IF tool_num < 1 THEN 1 ELSE IF tool_num > 10 THEN 10 ELSE tool_num)]_vars
C38_SearchInternet == []C38_SearchInternetAlwaysReturnsText /\ C38_Clamped
\* C38 witness: a call with num = 11 searched with groups_on_page = 10, got
\* a 30 and a 31 character record and returned the block of the latter.
C38_Witness ==
    /\ tool_pc = "returned"
    /\ tool_query = "q"
    /\ search_requests = <<[query_text |-> "q", groups_on_page |-> 10]>>
    /\ Len(tool_records) = 2
    /\ Len(tool_records[1].content) = 30
    /\ Len(tool_records[2].content) = 31
    /\ Len(tool_return) = 2
    /\ tool_return[2].item = tool_records[2]
\* C38 witness, empty query: the error text was returned and no search made.
C38_Witness_EmptyQuery ==
    /\ tool_pc = "returned"
    /\ tool_query = ""
    /\ search_requests = <<>>

\* ------------------------------------------------ MessageProcessor claims
RECURSIVE SumOver(_, _)
SumOver(f, S) ==
    IF S = {} THEN 0
    ELSE LET c == CHOOSE x \in S : TRUE IN f[c] + SumOver(f, S \ {c})
\* The messages process_message has returned a response of a kind for.
Answered(kind) == {j \in 1..Len(responses) : responses[j].kind = kind}
\* C40, the counters in every state: total_messages is the sum of the
\* per-client counters and the number of calls made, errors is at most
\* total_messages, and every call that is over has returned exactly one
\* response (the error response exactly errors times).
C40_CountersAgree ==
    /\ stats.total_messages = SumOver(stats.messages_by_client, ClientType)
    /\ stats.total_messages = received
    /\ stats.errors <= stats.total_messages
    /\ stats.errors = Cardinality(Answered("error"))
    /\ Len(responses) + Cardinality(in_process) = received
    /\ \A a, b \in 1..Len(responses) :
          a # b => responses[a].message_id # responses[b].message_id
    /\ \A message \in in_process, j \in 1..Len(responses) :
          responses[j].message_id # message.id
\* C40, the counters in every step: no counter decreases, and a message
\* that is neither text nor command leaves process_message with a response.
C40_CountersGrow ==
    /\ stats'.total_messages >= stats.total_messages
    /\ stats'.errors >= stats.errors
    /\ \A c \in ClientType :
          stats'.messages_by_client[c] >= stats.messages_by_client[c]
    /\ \A message \in in_process \ in_process' :
          /\ Len(responses') = Len(responses) + 1
          /\ responses'[Len(responses')].message_id = message.id
          /\ message.message_type = "file" =>
                responses'[Len(responses')].kind = "error"
\* C40: after any sequence of process_message calls on one MessageProcessor,
\* total_messages equals the sum of the per-client counters, errors <=
\* total_messages, no counter ever decreases, and process_message returns a
\* response (never raises) even for a message type that is neither text nor
\* command.
C40_Statistics == []C40_CountersAgree /\ [][C40_CountersGrow]_vars
\* C40 witness: of three messages from two clients, the file message was
\* answered with the error response while a text message was still awaited.
C40_Witness ==
    /\ received = 3
    /\ stats.total_messages = 3
    /\ stats.messages_by_client["telegram"] = 2
    /\ stats.messages_by_client["cli"] = 1
    /\ stats.errors = 1
    /\ \E message \in in_process : message.message_type = "text"
    /\ \E j \in 1..Len(responses) :
          responses[j].kind = "error" /\ responses[j].to = "file"

C32_QueryTerminates ==
    <>(pc = "done" /\ result # None /\ llm_in_flight = 0 /\ tool_in_flight = {})
\* C32 witness: a query that requested tools in every one of its ten model
\* calls has returned.
C32_Witness ==
    /\ pc = "done"
    /\ llm_calls >= max_iterations
    /\ result # None

\* ------------------------------------------------------- active session
\* C33: after any sequence of connect_to_server calls on one client, every
\* tool call is dispatched to the session established by the most recent
\* successful connect, never to one made by an earlier call.
C33_DispatchToLatestSession ==
    \A n \in 1..Len(dispatches) :
        dispatches[n].connected # 0 =>
            dispatches[n].target.made_by = dispatches[n].connected

\* --------------------------------------------------- per-query conversation
\* C35: conversation state is per query: for two process_query executions
\* on one client, run one after the other or interleaved at their awaits,
\* the conversation and the transcript of one hold, besides the system
\* message, only messages, tool results and fragments produced for that
\* query, and each returns an answer that is the last fragment of its own
\* transcript.
C35_ConversationIsPerQuery ==
    \A q \in Queries :
        /\ \A n \in 1..Len(frames[q].messages) :
              frames[q].messages[n].of \in {0, q}
        /\ \A n \in 1..Len(frames[q].final_text) :
              frames[q].final_text[n].of = q
        /\ query_pc[q] # "idle" =>
              /\ frames[q].messages[2] = PairUserMessage(q)
              /\ Len(frames[q].messages) = 2 + 2 * turns[q]
                    + (IF query_pc[q] = "await_tool" THEN 1 ELSE 0)
        /\ query_pc[q] = "done" =>
              /\ answers[q] = frames[q].final_text[Len(frames[q].final_text)]
              /\ answers[q].of = q
\* C35 witness: both queries have returned, each after a tool turn of its
\* own, the first with an error text and the second with a result.
C35_Witness ==
    /\ \A q \in Queries : query_pc[q] = "done" /\ turns[q] >= 1
    /\ frames[1].messages[4].says = "error"
    /\ frames[2].messages[4].says = "result"
    /\ answers[1] # answers[2]

====
